---- MODULE Spec2Model ----
(***************************************************************************)
(* The CFG pipeline of SWE_API: parser.py (parse_c_code,                   *)
(* process_code_fragment, find_matching_brace), cfg_generator.py           *)
(* (generate_cfg_from_ir) and the /generate-cfg handler of main.py.        *)
(*                                                                         *)
(* A Python str is a sequence of one-character strings; Python's 0-based   *)
(* index i is position i + 1 of the sequence.  A call that may raise       *)
(* yields Return(v) or Raise(msg).                                         *)
(***************************************************************************)
EXTENDS Integers, Sequences, FiniteSets, TLC

VARIABLES pc, c_code, parsed_blocks, node_id, cfg, response, log,
          request, session_data, evaluated, project_data, compiled

\* the locals and the global of the CFG service
cfgVars == <<c_code, parsed_blocks, node_id, cfg, log>>

\* the session store of the fitness service, and what it last answered
fitnessVars == <<session_data, evaluated>>

\* the project store of the coverage service, and what compiled so far
coverageVars == <<project_data, compiled>>

vars == <<pc, response, request, cfgVars, fitnessVars, coverageVars>>

----------------------------------------------------------------------------
(* Python values *)

Return(v) == [raised |-> FALSE, value |-> v]

Raise(msg) == [raised |-> TRUE, error |-> msg]

\* the characters \s matches and str.strip() removes
Whitespace == {" ", "\t", "\n", "\r", "\f"}

RECURSIVE lstrip(_)
lstrip(s) ==
    IF s # <<>> /\ Head(s) \in Whitespace THEN lstrip(Tail(s)) ELSE s

RECURSIVE rstrip(_)
rstrip(s) ==
    IF s # <<>> /\ s[Len(s)] \in Whitespace
    THEN rstrip(SubSeq(s, 1, Len(s) - 1))
    ELSE s

\* str.strip()
strip(s) == rstrip(lstrip(s))

\* s[i:] for a 0-based i
From(s, i) == SubSeq(s, i + 1, Len(s))

\* str.startswith
startswith(s, prefix) ==
    /\ Len(s) >= Len(prefix)
    /\ SubSeq(s, 1, Len(prefix)) = prefix

----------------------------------------------------------------------------
(* parser.py: the regular expressions *)

\* '.' without re.DOTALL: the rest of the line, up to a newline
RECURSIVE SkipLine(_)
SkipLine(s) ==
    IF s = <<>> \/ Head(s) = "\n" THEN s ELSE SkipLine(Tail(s))

\* re.sub(r'//.*', '', code)
RECURSIVE RemoveComments(_)
RemoveComments(code) ==
    IF code = <<>> THEN <<>>
    ELSE IF startswith(code, <<"/", "/">>)
         THEN RemoveComments(SkipLine(Tail(Tail(code))))
         ELSE <<Head(code)>> \o RemoveComments(Tail(code))

\* re.sub(r'\s+', ' ', code)
RECURSIVE NormalizeWhitespace(_)
NormalizeWhitespace(code) ==
    IF code = <<>> THEN <<>>
    ELSE IF Head(code) \in Whitespace
         THEN <<" ">> \o NormalizeWhitespace(lstrip(code))
         ELSE <<Head(code)>> \o NormalizeWhitespace(Tail(code))

\* the braces do not split the text
DelimitersNoBraces == {";"}

Delimiters == {"{", "}", ";"}

\* re.split(r'([{};])', code), with the text collected since the last delimiter
RECURSIVE SplitFrom(_, _)
SplitFrom(code, text) ==
    IF code = <<>> THEN <<text>>
    ELSE IF Head(code) \in Delimiters
         THEN <<text, <<Head(code)>>>> \o SplitFrom(Tail(code), <<>>)
         ELSE SplitFrom(Tail(code), Append(text, Head(code)))

\* re.split(r'[{};]', code): no group, so the delimiters are dropped
RECURSIVE SplitNoGroup(_, _)
SplitNoGroup(code, text) ==
    IF code = <<>> THEN <<text>>
    ELSE IF Head(code) \in Delimiters
         THEN <<text>> \o SplitNoGroup(Tail(code), <<>>)
         ELSE SplitNoGroup(Tail(code), Append(text, Head(code)))

TokenizeNoGroup(code) == SplitNoGroup(code, <<>>)

Tokenize(code) == SplitFrom(code, <<>>)

\* 0-based index of the first c in s at or after 0-based index i; -1 when none
RECURSIVE IndexOf(_, _, _)
IndexOf(s, c, i) ==
    IF i >= Len(s) THEN -1
    ELSE IF s[i + 1] = c THEN i ELSE IndexOf(s, c, i + 1)

IfKeyword == <<"i", "f">>

ElseKeyword == <<"e", "l", "s", "e">>

ElseIfKeyword == <<"e", "l", "s", "e", " ", "i", "f">>

NoMatch == [matched |-> FALSE]

\* re.match(keyword + r'\s*\((.*?)\)\s*(.*)', s, re.DOTALL): the lazy group
\* ends at the first ')' and the last group takes all that is left
MatchCondition(keyword, s) ==
    IF ~startswith(s, keyword) THEN NoMatch
    ELSE LET after == lstrip(From(s, Len(keyword)))
         IN IF after = <<>> \/ Head(after) # "(" THEN NoMatch
            ELSE LET close == IndexOf(after, ")", 1)
                 IN IF close < 0 THEN NoMatch
                    ELSE [matched |-> TRUE,
                          group1 |-> SubSeq(after, 2, close),
                          group2 |-> lstrip(From(after, close + 1))]

\* re.search(r'(else if|else)', s).start(), 0-based; -1 when there is no match
RECURSIVE SearchElse(_, _)
SearchElse(s, i) ==
    IF i + Len(ElseKeyword) > Len(s) THEN -1
    ELSE IF startswith(From(s, i), ElseKeyword) THEN i
         ELSE SearchElse(s, i + 1)

----------------------------------------------------------------------------
(* parser.py: find_matching_brace *)

\* the scan stops at the first '}', whatever the depth
RECURSIVE BraceScanFirstClose(_, _, _)
BraceScanFirstClose(code, i, depth) ==
    IF i >= Len(code) THEN Raise("No matching closing brace found")
    ELSE IF code[i + 1] = "}" THEN Return(i)
         ELSE BraceScanFirstClose(code, i + 1, depth)

RECURSIVE BraceScan(_, _, _)
BraceScan(code, i, depth) ==
    IF i >= Len(code) THEN Raise("No matching closing brace found")
    ELSE IF code[i + 1] = "{" THEN BraceScan(code, i + 1, depth + 1)
         ELSE IF code[i + 1] = "}"
              THEN IF depth - 1 = 0 THEN Return(i)
                   ELSE BraceScan(code, i + 1, depth - 1)
              ELSE BraceScan(code, i + 1, depth)

find_matching_brace(code) ==
    IF ~startswith(code, <<"{">>)
    THEN Raise("Code does not start with '{'")
    ELSE BraceScan(code, 0, 0)

----------------------------------------------------------------------------
(* parser.py: parse_c_code and process_code_fragment *)

StatementBlock(fragment) == [type |-> "statement", lines |-> <<fragment>>]

DecisionBlock(condition) == [type |-> "decision", condition |-> condition]

\* The calls of parse_c_code and process_code_fragment that can be on the
\* stack at once.  It stands for CPython's recursion limit (1000 frames by
\* default, which the parser reaches at about 500 nested ifs), scaled down;
\* depth counts the calls of the two functions that are on the stack already.
RecursionLimit == 6

RecursionError == Raise("maximum recursion depth exceeded")

RECURSIVE parse_c_code(_, _), TokenLoop(_, _, _, _, _), process_code_fragment(_, _)
RECURSIVE BraceBody(_, _), TrueBranch(_, _), ElseBranch(_, _), ElseChain(_, _, _)

\* a body in braces: the text between text[0] and its matching brace is
\* parsed on its own, and what follows the brace is what is left
BraceBody(text, depth) ==
    LET end_idx == find_matching_brace(text)
    IN IF end_idx.raised THEN end_idx
       ELSE LET body == parse_c_code(strip(SubSeq(text, 2, end_idx.value)), depth + 1)
            IN IF body.raised THEN body
               ELSE Return([blocks |-> body.value,
                            rest |-> strip(From(text, end_idx.value + 1))])

\* the body after 'if (..)' or 'else if (..)': in braces, or up to the first
\* 'else', or all of the text
TrueBranch(rest, depth) ==
    IF startswith(rest, <<"{">>) THEN BraceBody(rest, depth)
    ELSE LET else_match == SearchElse(rest, 0)
             true_branch == IF else_match >= 0
                            THEN strip(SubSeq(rest, 1, else_match))
                            ELSE rest
             body == parse_c_code(true_branch, depth + 1)
         IN IF body.raised THEN body
            ELSE Return([blocks |-> body.value,
                         rest |-> IF else_match >= 0
                                  THEN strip(From(rest, else_match))
                                  ELSE <<>>])

\* the body after 'else': in braces, or all of the text
ElseBranch(else_body, depth) ==
    IF startswith(else_body, <<"{">>) THEN BraceBody(else_body, depth)
    ELSE LET body == parse_c_code(else_body, depth + 1)
         IN IF body.raised THEN body
            ELSE Return([blocks |-> body.value, rest |-> <<>>])

\* the text left after the chain becomes a Statement Block
ElseChainKeepTrailing(rest, blocks, depth) ==
    IF rest = <<>> THEN Return(blocks)
    ELSE IF startswith(rest, ElseIfKeyword)
    THEN LET m == MatchCondition(ElseIfKeyword, rest)
         IN IF ~m.matched THEN Return(blocks)
            ELSE LET cond == strip(m.group1)
                     else_rest == strip(m.group2)
                     branch == TrueBranch(else_rest, depth)
                 IN IF branch.raised THEN branch
                    ELSE ElseChain(branch.value.rest,
                                   Append(blocks, DecisionBlock(cond))
                                       \o branch.value.blocks,
                                   depth)
    ELSE IF startswith(rest, ElseKeyword)
    THEN LET else_body == strip(From(rest, Len(ElseKeyword)))
             branch == ElseBranch(else_body, depth)
         IN IF branch.raised THEN branch
            ELSE ElseChain(branch.value.rest, blocks \o branch.value.blocks,
                           depth)
    ELSE Return(Append(blocks, StatementBlock(rest)))

\* the loop 'while rest' over the else if / else branches
ElseChain(rest, blocks, depth) ==
    IF rest = <<>> THEN Return(blocks)
    ELSE IF startswith(rest, ElseIfKeyword)
    THEN LET m == MatchCondition(ElseIfKeyword, rest)
         IN IF ~m.matched THEN Return(blocks)
            ELSE LET cond == strip(m.group1)
                     else_rest == strip(m.group2)
                     branch == TrueBranch(else_rest, depth)
                 IN IF branch.raised THEN branch
                    ELSE ElseChain(branch.value.rest,
                                   Append(blocks, DecisionBlock(cond))
                                       \o branch.value.blocks,
                                   depth)
    ELSE IF startswith(rest, ElseKeyword)
    THEN LET else_body == strip(From(rest, Len(ElseKeyword)))
             branch == ElseBranch(else_body, depth)
         IN IF branch.raised THEN branch
            ELSE ElseChain(branch.value.rest, blocks \o branch.value.blocks,
                           depth)
    ELSE Return(blocks)

process_code_fragment(fragment_in, depth) ==
    LET fragment == strip(fragment_in)
        if_match == MatchCondition(IfKeyword, fragment)
    IN IF depth >= RecursionLimit THEN RecursionError
       ELSE IF if_match.matched
       THEN LET condition == strip(if_match.group1)
                rest == strip(if_match.group2)
                branch == TrueBranch(rest, depth)
            IN IF branch.raised THEN branch
               ELSE ElseChain(branch.value.rest,
                              <<DecisionBlock(condition)>> \o branch.value.blocks,
                              depth)
       ELSE Return(<<StatementBlock(fragment)>>)

\* the loop 'while i < len(tokens)' and the flush of the trailing buffer;
\* i is 0-based
TokenLoop(tokens, i, buffer, blocks, depth) ==
    IF i >= Len(tokens)
    THEN IF strip(buffer) # <<>>
         THEN LET flushed == process_code_fragment(strip(buffer), depth + 1)
              IN IF flushed.raised THEN flushed
                 ELSE Return(blocks \o flushed.value)
         ELSE Return(blocks)
    ELSE LET token == strip(tokens[i + 1])
         IN IF token = <<>> THEN TokenLoop(tokens, i + 1, buffer, blocks, depth)
            ELSE IF token = <<"{">> \/ token = <<"}">>
            THEN IF strip(buffer) # <<>>
                 THEN LET flushed == process_code_fragment(strip(buffer), depth + 1)
                      IN IF flushed.raised THEN flushed
                         ELSE TokenLoop(tokens, i + 1, <<>>,
                                        blocks \o flushed.value, depth)
                 ELSE TokenLoop(tokens, i + 1, buffer, blocks, depth)
            ELSE IF token = <<";">>
            THEN LET flushed == process_code_fragment(strip(Append(buffer, ";")),
                                                  depth + 1)
                 IN IF flushed.raised THEN flushed
                    ELSE TokenLoop(tokens, i + 1, <<>>, blocks \o flushed.value,
                                   depth)
            ELSE TokenLoop(tokens, i + 1, (buffer \o token) \o <<" ">>, blocks,
                           depth)

\* the comments are not removed
parse_c_code_KeepComments(code, depth) ==
    IF depth >= RecursionLimit THEN RecursionError
    ELSE TokenLoop(Tokenize(NormalizeWhitespace(code)), 0, <<>>, <<>>, depth)

parse_c_code(code, depth) ==
    IF depth >= RecursionLimit THEN RecursionError
    ELSE TokenLoop(Tokenize(NormalizeWhitespace(RemoveComments(code))),
                   0, <<>>, <<>>, depth)

\* ---------------------------------------------------------------------
\* the calls parse_c_code and process_code_fragment make, and the
\* iterations of the loop 'while rest'
\* ---------------------------------------------------------------------

Call(op, text, depth) == [op |-> op, text |-> text, depth |-> depth]

\* the fragments the loop 'while i < len(tokens)' and the trailing flush
\* hand to process_code_fragment, in order; i is 0-based
RECURSIVE FlushedFragments(_, _, _)
FlushedFragments(tokens, i, buffer) ==
    IF i >= Len(tokens)
    THEN IF strip(buffer) # <<>> THEN <<strip(buffer)>> ELSE <<>>
    ELSE LET token == strip(tokens[i + 1])
         IN IF token = <<>> THEN FlushedFragments(tokens, i + 1, buffer)
            ELSE IF token = <<"{">> \/ token = <<"}">>
            THEN IF strip(buffer) # <<>>
                 THEN <<strip(buffer)>> \o FlushedFragments(tokens, i + 1, <<>>)
                 ELSE FlushedFragments(tokens, i + 1, buffer)
            ELSE IF token = <<";">>
            THEN <<strip(Append(buffer, ";"))>>
                    \o FlushedFragments(tokens, i + 1, <<>>)
            ELSE FlushedFragments(tokens, i + 1, (buffer \o token) \o <<" ">>)

\* the body is the whole text, the keyword and the condition included
BranchTextWhole(rest) ==
    Return([body |-> <<"i", "f", " ", "(", ")", " ">> \o rest, rest |-> <<>>])

\* the text of the body after 'if (..)' or 'else if (..)' and the text left
\* after it
BranchText(rest) ==
    IF startswith(rest, <<"{">>)
    THEN LET end_idx == find_matching_brace(rest)
         IN IF end_idx.raised THEN end_idx
            ELSE Return([body |-> strip(SubSeq(rest, 2, end_idx.value)),
                         rest |-> strip(From(rest, end_idx.value + 1))])
    ELSE LET else_match == SearchElse(rest, 0)
         IN IF else_match >= 0
            THEN Return([body |-> strip(SubSeq(rest, 1, else_match)),
                         rest |-> strip(From(rest, else_match))])
            ELSE Return([body |-> rest, rest |-> <<>>])

\* the text of the body after 'else' and the text left after it
ElseText(else_body) ==
    IF startswith(else_body, <<"{">>)
    THEN LET end_idx == find_matching_brace(else_body)
         IN IF end_idx.raised THEN end_idx
            ELSE Return([body |-> strip(SubSeq(else_body, 2, end_idx.value)),
                         rest |-> strip(From(else_body, end_idx.value + 1))])
    ELSE Return([body |-> else_body, rest |-> <<>>])

\* one iteration of 'while rest': the branch it takes, or a break
Iteration(rest) ==
    IF startswith(rest, ElseIfKeyword)
    THEN LET m == MatchCondition(ElseIfKeyword, rest)
         IN IF ~m.matched THEN Raise("break")
            ELSE BranchText(strip(m.group2))
    ELSE IF startswith(rest, ElseKeyword)
    THEN ElseText(strip(From(rest, Len(ElseKeyword))))
    ELSE Raise("break")

\* the body a branch hands to parse_c_code and, when that call returns and
\* text is left, the next iteration of the loop
BranchCalls(branch, depth) ==
    IF branch.raised THEN {}
    ELSE {Call("parse_c_code", branch.value.body, depth + 1)}
           \cup IF /\ branch.value.rest # <<>>
                   /\ ~parse_c_code(branch.value.body, depth + 1).raised
                THEN {Call("while rest", branch.value.rest, depth)}
                ELSE {}

\* the calls and loop iterations that follow directly from a call or from a
\* loop iteration; a fragment is handed on only when the fragments before it
\* returned
Callees(call) ==
    IF call.depth >= RecursionLimit THEN {}
    ELSE IF call.op = "parse_c_code"
    THEN LET fragments ==
                 FlushedFragments(
                     Tokenize(NormalizeWhitespace(RemoveComments(call.text))),
                     0, <<>>)
         IN {Call("process_code_fragment", fragments[k], call.depth + 1) :
                k \in {k \in DOMAIN fragments :
                          \A j \in 1..(k - 1) :
                             ~process_code_fragment(fragments[j],
                                                    call.depth + 1).raised}}
    ELSE IF call.op = "process_code_fragment"
    THEN LET if_match == MatchCondition(IfKeyword, strip(call.text))
         IN IF ~if_match.matched THEN {}
            ELSE BranchCalls(BranchText(strip(if_match.group2)), call.depth)
    ELSE BranchCalls(Iteration(call.text), call.depth)

\* every call and loop iteration under a call
RECURSIVE Reach(_)
Reach(call) ==
    {call} \cup UNION {Reach(c) : c \in Callees(call)}

----------------------------------------------------------------------------
(* cfg_generator.py *)

\* Optional[str]
None == <<>>

Some(text) == <<text>>

START == <<"S", "T", "A", "R", "T">>

EXIT == <<"E", "X", "I", "T">>

CFGNode(id, lines, type, label) ==
    [id |-> id, lines |-> lines, type |-> type, label |-> label]

CFGEdge(from_node, to_node, label, color) ==
    [from_node |-> from_node, to_node |-> to_node, label |-> label, color |-> color]

\* the id counter is not reset: a call goes on from where the last one stopped
StaleNodeId == node_id

\* node_id = 0: where the id counter of a call starts
FirstNodeId == 0

\* block.get("lines", [])
BlockLines(block) == IF "lines" \in DOMAIN block THEN block.lines ELSE <<>>

\* the body of 'for block in blocks', with nid the id next_id() hands out
BlockNode(block, nid) ==
    IF block.type = "decision"
    THEN CFGNode(nid, <<block.condition>>, "decision", Some(block.condition))
    ELSE CFGNode(nid, BlockLines(block), "statement", None)

\* the loop 'for block in blocks': next_id() counts up once per block
RECURSIVE CreateNodes(_, _, _)
CreateNodes(blocks, nodes, nid) ==
    IF blocks = <<>> THEN [nodes |-> nodes, node_id |-> nid]
    ELSE CreateNodes(Tail(blocks), Append(nodes, BlockNode(Head(blocks), nid)), nid + 1)

\* the "False" edge is left out one node too early
EdgesAtShortFalse(nodes, i) ==
    LET current == nodes[i + 1]
        next_node == nodes[i + 2]
    IN IF current.type = "decision"
       THEN <<CFGEdge(current.id, next_node.id, "True", "#22c55e")>>
            \o (IF i + 3 < Len(nodes)
                THEN <<CFGEdge(current.id, nodes[i + 3].id, "False", "#ef4444")>>
                ELSE <<>>)
       ELSE <<CFGEdge(current.id, next_node.id, "", "#6b7280")>>

\* the kind of edge is decided by the next node, not by the current one
EdgesAtByNext(nodes, i) ==
    LET current == nodes[i + 1]
        next_node == nodes[i + 2]
    IN IF next_node.type = "decision"
       THEN <<CFGEdge(current.id, next_node.id, "True", "#22c55e")>>
            \o (IF i + 2 < Len(nodes)
                THEN <<CFGEdge(current.id, nodes[i + 3].id, "False", "#ef4444")>>
                ELSE <<>>)
       ELSE <<CFGEdge(current.id, next_node.id, "", "#6b7280")>>

\* the "False" edge comes back to the decision: nodes[i] for nodes[i + 2]
EdgesAtFalseToSelf(nodes, i) ==
    LET current == nodes[i + 1]
        next_node == nodes[i + 2]
    IN IF current.type = "decision"
       THEN <<CFGEdge(current.id, next_node.id, "True", "#22c55e")>>
            \o (IF i + 2 < Len(nodes)
                THEN <<CFGEdge(current.id, nodes[i + 1].id, "False", "#ef4444")>>
                ELSE <<>>)
       ELSE <<CFGEdge(current.id, next_node.id, "", "#6b7280")>>

\* the body of 'for i in range(len(nodes) - 1)', i 0-based
EdgesAt(nodes, i) ==
    LET current == nodes[i + 1]
        next_node == nodes[i + 2]
    IN IF current.type = "decision"
       THEN <<CFGEdge(current.id, next_node.id, "True", "#22c55e")>>
            \o (IF i + 2 < Len(nodes)
                THEN <<CFGEdge(current.id, nodes[i + 3].id, "False", "#ef4444")>>
                ELSE <<>>)
       ELSE <<CFGEdge(current.id, next_node.id, "", "#6b7280")>>

RECURSIVE BuildEdges(_, _)
BuildEdges(nodes, i) ==
    IF i >= Len(nodes) - 1 THEN <<>>
    ELSE EdgesAt(nodes, i) \o BuildEdges(nodes, i + 1)

\* nodes.append(exit_node) is left out
generate_cfg_from_ir_NoExit(blocks) ==
    LET created == CreateNodes(blocks, <<>>, FirstNodeId)
        entry_node == CFGNode(created.node_id, <<>>, "entry", Some(START))
        nodes == <<entry_node>> \o created.nodes
    IN [nodes |-> nodes,
        edges |-> BuildEdges(nodes, 0),
        node_id |-> created.node_id + 2]

\* the edges are built over Entry, the blocks and Exit, but only the nodes of
\* the blocks are returned
generate_cfg_from_ir_BlockNodesOnly(blocks) ==
    LET created == CreateNodes(blocks, <<>>, FirstNodeId)
        entry_node == CFGNode(created.node_id, <<>>, "entry", Some(START))
        exit_node == CFGNode(created.node_id + 1, <<>>, "exit", Some(EXIT))
        nodes == (<<entry_node>> \o created.nodes) \o <<exit_node>>
    IN [nodes |-> created.nodes,
        edges |-> BuildEdges(nodes, 0),
        node_id |-> created.node_id + 2]

\* Entry is created first and Exit last, so that ids follow the positions
generate_cfg_from_ir_IdsInOrder(blocks) ==
    LET entry_node == CFGNode(FirstNodeId, <<>>, "entry", Some(START))
        created == CreateNodes(blocks, <<>>, FirstNodeId + 1)
        exit_node == CFGNode(created.node_id, <<>>, "exit", Some(EXIT))
        nodes == (<<entry_node>> \o created.nodes) \o <<exit_node>>
    IN [nodes |-> nodes,
        edges |-> BuildEdges(nodes, 0),
        node_id |-> created.node_id + 1]

\* the result, and the counter as the call leaves it
generate_cfg_from_ir(blocks) ==
    LET created == CreateNodes(blocks, <<>>, FirstNodeId)
        entry_node == CFGNode(created.node_id, <<>>, "entry", Some(START))
        exit_node == CFGNode(created.node_id + 1, <<>>, "exit", Some(EXIT))
        nodes == (<<entry_node>> \o created.nodes) \o <<exit_node>>
    IN [nodes |-> nodes,
        edges |-> BuildEdges(nodes, 0),
        node_id |-> created.node_id + 2]

----------------------------------------------------------------------------
(* The inputs *)

\* source texts are built from at most MaxLex lexemes
MaxLex == 3

\* block lists handed to generate_cfg_from_ir have at most MaxBlocks blocks
MaxBlocks == 4

\* sources of simple statements have at most MaxStatements statements
MaxStatements == 3

\* a client sends at most MaxCalls requests one after the other
MaxCalls == 3

RECURSIVE Flatten(_)
Flatten(texts) ==
    IF texts = <<>> THEN <<>> ELSE Head(texts) \o Flatten(Tail(texts))

SeqsUpTo(S, n) == UNION {[1..k -> S] : k \in 0..n}

\* the empty source
ScenarioA ==
    <<>>

\* int a = 1; int b = 2;
ScenarioB ==
    <<"i", "n", "t", " ", "a", " ", "=", " ", "1", ";", " ", "i", "n", "t",
      " ", "b", " ", "=", " ", "2", ";">>

\* if (x > 0) { y = 1; } else { y = -1; }
ScenarioC ==
    <<"i", "f", " ", "(", "x", " ", ">", " ", "0", ")", " ", "{", " ", "y",
      " ", "=", " ", "1", ";", " ", "}", " ", "e", "l", "s", "e", " ", "{",
      " ", "y", " ", "=", " ", "-", "1", ";", " ", "}">>

\* if (x) { y = 1;   (the brace is never closed)
ScenarioD ==
    <<"i", "f", " ", "(", "x", ")", " ", "{", " ", "y", " ", "=", " ", "1",
      ";">>

\* if (a) x; else if (b) y; else z;
ScenarioElseIf ==
    <<"i", "f", " ", "(", "a", ")", " ", "x", ";", " ", "e", "l", "s", "e",
      " ", "i", "f", " ", "(", "b", ")", " ", "y", ";", " ", "e", "l", "s",
      "e", " ", "z", ";">>

\* if (a) x else if (b) y else z   (one fragment: no delimiter)
ScenarioInline ==
    <<"i", "f", " ", "(", "a", ")", " ", "x", " ", "e", "l", "s", "e", " ",
      "i", "f", " ", "(", "b", ")", " ", "y", " ", "e", "l", "s", "e", " ",
      "z">>

ScenarioSources ==
    {ScenarioA, ScenarioB, ScenarioC, ScenarioD, ScenarioElseIf, ScenarioInline}

Lexemes ==
    { <<"i", "f", " ", "(", "x", ")", " ">>,
      <<"e", "l", "s", "e", " ">>,
      <<"e", "l", "s", "e", " ", "i", "f", " ", "(", "y", ")", " ">>,
      <<"i", "f">>, <<"(">>, <<"a">>, <<";">>, <<"{">>, <<"}">>,
      <<" ">>, <<"\n">>, <<"/", "/">> }

LexemeSources == {Flatten(ls) : ls \in SeqsUpTo(Lexemes, MaxLex)}

\* statements without 'if', braces, comments or ';'
SimpleStatements ==
    { <<"a">>,
      <<"i", "n", "t", " ", "a", " ", "=", " ", "1">>,
      <<"i", "n", "t", " ", "b", " ", "=", " ", "2">> }

\* what stands between one statement's ';' and the next statement
Separators == {<<>>, <<" ">>, <<"\n">>}

RECURSIVE SimpleSource(_, _)
SimpleSource(stmts, sep) ==
    IF stmts = <<>> THEN <<>>
    ELSE (Head(stmts) \o <<";">>)
         \o (IF Len(stmts) > 1 THEN sep ELSE <<>>)
         \o SimpleSource(Tail(stmts), sep)

StatementLists == SeqsUpTo(SimpleStatements, MaxStatements)

\* each source of simple statements, with the statements it is made of
SimpleCases ==
    {[c_code |-> SimpleSource(stmts, sep), stmts |-> stmts] :
        stmts \in StatementLists, sep \in Separators}

SimpleSources == {case.c_code : case \in SimpleCases}

Sources == ScenarioSources \cup LexemeSources \cup SimpleSources

Texts == {<<"a">>, <<"b">>}

Blocks ==
    {DecisionBlock(t) : t \in Texts} \cup {StatementBlock(t) : t \in Texts}

BlockLists == SeqsUpTo(Blocks, MaxBlocks)

----------------------------------------------------------------------------
(* main.py: the /generate-cfg endpoint *)

NoCfg == [nodes |-> <<>>, edges |-> <<>>]

NoResponse == [status |-> 0]

\* return cfg
Ok(body) == [status |-> 200, body |-> body]

\* an exception that no handler catches: the framework answers 500
InternalServerError(status_code, detail) ==
    [status |-> 500, detail |-> <<>>]

\* raise HTTPException(status_code=400, detail=str(e))
HTTPException(status_code, detail) == [status |-> status_code, detail |-> detail]

NoRequest == [op |-> "none"]

\* session_data = {} and project_data = {} at import, nothing called yet
OtherServicesIdle ==
    /\ request = NoRequest
    /\ session_data = <<>>
    /\ evaluated = <<>>
    /\ project_data = <<>>
    /\ compiled = {}

Init ==
    /\ pc = "idle"
    /\ c_code = <<>>
    /\ parsed_blocks = <<>>
    /\ node_id = 0
    /\ cfg = NoCfg
    /\ response = NoResponse
    /\ log = <<>>
    /\ OtherServicesIdle

\* the server is between two requests, and the client has requests left
Accepting(calls) ==
    /\ pc \in {"idle", "done"}
    /\ Len(log) < calls

\* a client posts code_input; the locals of the call before are gone
Request(src) ==
    /\ pc' = "received"
    /\ c_code' = src
    /\ parsed_blocks' = <<>>
    /\ cfg' = NoCfg
    /\ response' = NoResponse
    /\ UNCHANGED <<node_id, log, request, fitnessVars, coverageVars>>

generate_cfg_endpoint ==
    /\ pc = "received"
    /\ pc' = "done"
    /\ LET parsed == parse_c_code(c_code, 0)
       IN IF parsed.raised
          THEN /\ response' = HTTPException(400, parsed.error)
               /\ UNCHANGED <<parsed_blocks, cfg, node_id>>
          ELSE LET built == generate_cfg_from_ir(parsed.value)
               IN /\ parsed_blocks' = parsed.value
                  /\ cfg' = [nodes |-> built.nodes, edges |-> built.edges]
                  /\ node_id' = built.node_id
                  /\ response' = Ok(cfg')
    /\ log' = Append(log, [c_code |-> c_code, response |-> response'])
    /\ UNCHANGED <<c_code, request, fitnessVars, coverageVars>>

\* one request, of any source
Next ==
    \/ Accepting(1) /\ \E src \in Sources : Request(src)
    \/ generate_cfg_endpoint

Spec == Init /\ [][Next]_vars

\* requests one after the other
NextCalls ==
    \/ Accepting(MaxCalls) /\ \E src \in ScenarioSources : Request(src)
    \/ generate_cfg_endpoint

SpecCalls == Init /\ [][NextCalls]_vars

\* generate_cfg_from_ir on a block list
InitIr ==
    /\ pc = "ir"
    /\ c_code = <<>>
    /\ parsed_blocks \in BlockLists
    /\ node_id = 0
    /\ cfg = NoCfg
    /\ response = NoResponse
    /\ log = <<>>
    /\ OtherServicesIdle

GenerateCfgFromIr ==
    /\ pc = "ir"
    /\ pc' = "built"
    /\ LET built == generate_cfg_from_ir(parsed_blocks)
       IN /\ cfg' = [nodes |-> built.nodes, edges |-> built.edges]
          /\ node_id' = built.node_id
    /\ UNCHANGED <<c_code, parsed_blocks, response, log>>
    /\ UNCHANGED <<request, fitnessVars, coverageVars>>

NextIr == GenerateCfgFromIr

SpecIr == InitIr /\ [][NextIr]_vars

----------------------------------------------------------------------------
(* The graph that generate_cfg_from_ir returns *)

NodeIds(nodes) == {nodes[p].id : p \in 1..Len(nodes)}

\* the edges (by their place in the list) that leave the node with this id
Outgoing(g, id) == {k \in 1..Len(g.edges) : g.edges[k].from_node = id}

Labelled(g, ks, label) == {k \in ks : g.edges[k].label = label}

\* C1: whenever parsing succeeds, generate_cfg returns len(blocks) + 2 nodes;
\* the first is the entry node, the last the exit node, and no node between
\* them is an entry or an exit node.
C1_NodeCount ==
    (pc = "done" /\ response.status = 200) =>
        LET nodes == response.body.nodes
        IN /\ Len(nodes) = Len(parsed_blocks) + 2
           /\ nodes[1].type = "entry"
           /\ nodes[Len(nodes)].type = "exit"
           /\ \A p \in 2..(Len(nodes) - 1) : nodes[p].type \notin {"entry", "exit"}

C1_Witness ==
    /\ pc = "done"
    /\ response.status = 200
    /\ Len(parsed_blocks) >= 3
    /\ Len(response.body.nodes) = Len(parsed_blocks) + 2
    /\ \E k \in 1..Len(parsed_blocks) : parsed_blocks[k].type = "decision"

\* C2: for every block list, both ends of every edge are ids of nodes of the
\* returned node list.
C2_EdgesReferToNodes ==
    pc = "built" =>
        \A k \in 1..Len(cfg.edges) :
            /\ cfg.edges[k].from_node \in NodeIds(cfg.nodes)
            /\ cfg.edges[k].to_node \in NodeIds(cfg.nodes)

C2_Witness ==
    /\ pc = "built"
    /\ Len(parsed_blocks) = MaxBlocks
    /\ Len(cfg.edges) > Len(cfg.nodes)
    /\ \A k \in 1..Len(cfg.edges) : cfg.edges[k].to_node \in NodeIds(cfg.nodes)

\* C3: for every block list, a decision node has exactly one outgoing "True"
\* edge, to the node right after it in the ordering; it has a "False" edge
\* exactly when there is a node two positions after it, only one, and to that
\* node; and it has no other outgoing edge.
C3_DecisionEdges ==
    pc = "built" =>
        \A p \in 1..Len(cfg.nodes) :
            cfg.nodes[p].type = "decision" =>
                LET out == Outgoing(cfg, cfg.nodes[p].id)
                    true == Labelled(cfg, out, "True")
                    false == Labelled(cfg, out, "False")
                IN /\ Cardinality(true) = 1
                   /\ p + 1 <= Len(cfg.nodes)
                   /\ \A k \in true : cfg.edges[k].to_node = cfg.nodes[p + 1].id
                   /\ Cardinality(false) = (IF p + 2 <= Len(cfg.nodes) THEN 1 ELSE 0)
                   /\ \A k \in false : cfg.edges[k].to_node = cfg.nodes[p + 2].id
                   /\ out = true \cup false

\* a decision that has a "False" edge before a decision that has none
C3_Witness ==
    /\ pc = "built"
    /\ Len(parsed_blocks) >= 2
    /\ parsed_blocks[1].type = "decision"
    /\ parsed_blocks[Len(parsed_blocks)].type = "decision"
    /\ Cardinality(Outgoing(cfg, cfg.nodes[2].id)) = 2
    /\ Cardinality(Outgoing(cfg, cfg.nodes[Len(cfg.nodes) - 1].id)) = 1

\* C4: for every block list, the entry node and every statement node have
\* exactly one outgoing edge, with label "" and color "#6b7280", to the node
\* right after them in the ordering; the exit node has no outgoing edge.
C4_PlainEdges ==
    pc = "built" =>
        \A p \in 1..Len(cfg.nodes) :
            LET out == Outgoing(cfg, cfg.nodes[p].id)
            IN /\ cfg.nodes[p].type \notin {"decision", "exit"} =>
                    /\ Cardinality(out) = 1
                    /\ p + 1 <= Len(cfg.nodes)
                    /\ \A k \in out :
                        cfg.edges[k] = CFGEdge(cfg.nodes[p].id, cfg.nodes[p + 1].id,
                                               "", "#6b7280")
               /\ cfg.nodes[p].type = "exit" => out = {}

C4_Witness ==
    /\ pc = "built"
    /\ \E p \in 2..(Len(cfg.nodes) - 1) :
        /\ cfg.nodes[p].type = "statement"
        /\ cfg.nodes[p + 1].type = "decision"
        /\ Cardinality(Outgoing(cfg, cfg.nodes[p].id)) = 1
    /\ Outgoing(cfg, cfg.nodes[Len(cfg.nodes)].id) = {}

\* C5: two calls of generate_cfg on the same source text return the same
\* nodes and the same edges, ids included, whatever calls come between them.
C5_SameSourceSameGraph ==
    \A a, b \in 1..Len(log) :
        log[a].c_code = log[b].c_code => log[a].response = log[b].response

\* the same source twice, another source between the two calls
C5_Witness ==
    /\ Len(log) = 3
    /\ log[1].c_code = log[3].c_code
    /\ log[2].c_code # log[1].c_code
    /\ log[2].response.status = 200
    /\ log[3].response.status = 200
    /\ Len(log[3].response.body.nodes) > 2
    /\ Len(log[2].response.body.nodes) > 2

\* C6: for every block list of length N, the node of the k-th block
\* (k = 0..N-1) has id k, the entry node has id N and the exit node has id
\* N + 1, although the entry node is first and the exit node last in the node
\* list; the N + 2 ids are distinct.
C6_IdsInCreationOrder ==
    pc = "built" =>
        LET N == Len(parsed_blocks)
        IN /\ Len(cfg.nodes) = N + 2
           /\ \A k \in 0..(N - 1) : cfg.nodes[k + 2].id = k
           /\ cfg.nodes[1].id = N /\ cfg.nodes[1].type = "entry"
           /\ cfg.nodes[N + 2].id = N + 1 /\ cfg.nodes[N + 2].type = "exit"
           /\ Cardinality(NodeIds(cfg.nodes)) = N + 2

C6_Witness ==
    /\ pc = "built"
    /\ Len(parsed_blocks) = 3
    /\ cfg.nodes[1].id = 3
    /\ cfg.nodes[2].id = 0
    /\ cfg.nodes[5].id = 4

----------------------------------------------------------------------------
(* The scenarios of generate_cfg *)

\* outside its // comments the source holds only whitespace and braces
NoFragments(src) ==
    \A p \in 1..Len(RemoveComments(src)) :
        RemoveComments(src)[p] \in Whitespace \cup {"{", "}"}

\* C7: on the empty source, and on any source that holds no fragment,
\* generate_cfg returns 2 nodes, the entry node and then the exit node, and 1
\* edge, a plain one (label "") from the entry node to the exit node.
C7_EmptySource ==
    (pc = "done" /\ NoFragments(c_code)) =>
        /\ response.status = 200
        /\ LET g == response.body
           IN /\ Len(g.nodes) = 2
              /\ g.nodes[1].type = "entry"
              /\ g.nodes[2].type = "exit"
              /\ Len(g.edges) = 1
              /\ g.edges[1].label = ""
              /\ g.edges[1].from_node = g.nodes[1].id
              /\ g.edges[1].to_node = g.nodes[2].id

C7_Witness ==
    /\ pc = "done"
    /\ c_code = ScenarioA
    /\ response.status = 200
    /\ Len(response.body.nodes) = 2
    /\ Len(response.body.edges) = 1

\* the line of a simple statement: its text, a space and ';'
StatementLine(stmt) == stmt \o <<" ", ";">>

\* C8: for a source of k simple statements, each ended by ';', the parser
\* yields k statement blocks in source order, each with the one line
\* "<statement text> ;", and the graph has k + 2 nodes and k + 1 edges, all
\* plain, that chain the entry node, the statements in order and the exit node.
C8_SimpleStatements ==
    pc = "done" =>
        \A case \in SimpleCases :
            c_code = case.c_code =>
                LET stmts == case.stmts
                    k_blocks == [k \in 1..Len(stmts) |->
                                    StatementBlock(StatementLine(stmts[k]))]
                IN /\ response.status = 200
                   /\ parsed_blocks = k_blocks
                   /\ Len(response.body.nodes) = Len(stmts) + 2
                   /\ \A k \in 1..Len(stmts) :
                        /\ response.body.nodes[k + 1].type = "statement"
                        /\ response.body.nodes[k + 1].lines
                             = <<StatementLine(stmts[k])>>
                   /\ Len(response.body.edges) = Len(stmts) + 1
                   /\ \A k \in 1..Len(response.body.edges) :
                        /\ response.body.edges[k].label = ""
                        /\ response.body.edges[k].from_node
                             = response.body.nodes[k].id
                        /\ response.body.edges[k].to_node
                             = response.body.nodes[k + 1].id

C8_Witness ==
    /\ pc = "done"
    /\ c_code = ScenarioB
    /\ Len(parsed_blocks) = 2
    /\ parsed_blocks[2].lines =
         <<<<"i", "n", "t", " ", "b", " ", "=", " ", "2", " ", ";">>>>
    /\ Len(response.body.edges) = 3

\* C9: on "if (x > 0) { y = 1; } else { y = -1; }" there are exactly three
\* blocks, the decision "x > 0", the statement "y = 1 ;" and the statement
\* "y = -1 ;", and the decision node has a "True" edge to the "y = 1 ;" node
\* and a "False" edge to the node two positions ahead, the "y = -1 ;" node.
C9_ScenarioC ==
    (pc = "done" /\ c_code = ScenarioC) =>
        /\ response.status = 200
        /\ parsed_blocks =
             << DecisionBlock(<<"x", " ", ">", " ", "0">>),
                StatementBlock(<<"y", " ", "=", " ", "1", " ", ";">>),
                StatementBlock(<<"y", " ", "=", " ", "-", "1", " ", ";">>) >>
        /\ LET g == response.body
           IN /\ \E k \in Outgoing(g, g.nodes[2].id) :
                    /\ g.edges[k].label = "True"
                    /\ g.edges[k].to_node = g.nodes[3].id
              /\ \E k \in Outgoing(g, g.nodes[2].id) :
                    /\ g.edges[k].label = "False"
                    /\ g.edges[k].to_node = g.nodes[4].id
                    /\ g.nodes[4].lines =
                         <<<<"y", " ", "=", " ", "-", "1", " ", ";">>>>

\* C10: on "if (x) { y = 1;", whose brace is never closed, generate_cfg
\* fails: the request ends in an error and returns no nodes and no edges.
C10_UnclosedBraceFails ==
    (pc = "done" /\ c_code = ScenarioD) =>
        /\ response.status = 400
        /\ "body" \notin DOMAIN response

\* C11: on "if (a) x; else if (b) y; else z;" there is one decision block
\* for the condition a and one for the condition b, and no statement block
\* holds a line that starts with "else if".
C11_ElseIfChain ==
    (pc = "done" /\ c_code = ScenarioElseIf) =>
        /\ response.status = 200
        /\ \E i \in DOMAIN parsed_blocks :
              parsed_blocks[i] = DecisionBlock(<<"a">>)
        /\ \E i \in DOMAIN parsed_blocks :
              parsed_blocks[i] = DecisionBlock(<<"b">>)
        /\ \A i \in DOMAIN parsed_blocks :
              parsed_blocks[i].type = "statement" =>
                 \A k \in DOMAIN parsed_blocks[i].lines :
                    ~startswith(parsed_blocks[i].lines[k], ElseIfKeyword)

\* C12: when parsing the posted source raises, the one response of the
\* request is the error with status 400 and the message of the exception as
\* its detail; it carries no graph, and no graph is kept.
C12_ErrorIs400 ==
    (pc = "done" /\ parse_c_code(c_code, 0).raised) =>
        /\ response.status = 400
        /\ response.detail = parse_c_code(c_code, 0).error
        /\ "body" \notin DOMAIN response
        /\ cfg = NoCfg
        /\ Len(log) = 1
        /\ log[1].response = response

C12_Witness ==
    /\ pc = "done"
    /\ parse_c_code(c_code, 0).raised
    /\ response.status = 400
    /\ log = <<[c_code |-> c_code, response |-> response]>>


----------------------------------------------------------------------------
(* parser.py: find_matching_brace called on a text of its own *)

\* the longest text handed to find_matching_brace
MaxBraceLen == 5

BraceChars == {<<"{">>, <<"}">>, <<"a">>}

BraceTexts == {Flatten(cs) : cs \in SeqsUpTo(BraceChars, MaxBraceLen)}

InitBrace ==
    /\ pc = "brace"
    /\ request \in {[op |-> "find_matching_brace", code |-> t] : t \in BraceTexts}
    /\ response = NoResponse
    /\ c_code = <<>>
    /\ parsed_blocks = <<>>
    /\ node_id = 0
    /\ cfg = NoCfg
    /\ log = <<>>
    /\ session_data = <<>>
    /\ evaluated = <<>>
    /\ project_data = <<>>
    /\ compiled = {}

FindMatchingBrace ==
    /\ pc = "brace"
    /\ pc' = "returned"
    /\ response' = find_matching_brace(request.code)
    /\ UNCHANGED <<request, cfgVars, fitnessVars, coverageVars>>

NextBrace == FindMatchingBrace

SpecBrace == InitBrace /\ [][NextBrace]_vars

\* +1 per '{' and -1 per '}' over text[0..j]
RunningDepth(text, j) ==
    Cardinality({k \in 1..(j + 1) : text[k] = "{"})
      - Cardinality({k \in 1..(j + 1) : text[k] = "}"})

\* the indices at which the running depth is back to zero
ZeroDepthAt(text) ==
    {j \in 0..(Len(text) - 1) : RunningDepth(text, j) = 0}

\* C13: find_matching_brace returns r exactly when the text starts with '{'
\* and r is the smallest index where the running depth is back to zero, and
\* then text[r] is '}'; when the text does not start with '{' or the depth
\* never comes back to zero it raises, and returns no index at all.
C13_MatchingBrace ==
    pc = "returned" =>
        LET text == request.code
            balanced == startswith(text, <<"{">>) /\ ZeroDepthAt(text) # {}
        IN /\ balanced <=> ~response.raised
           /\ balanced =>
                /\ response.value \in ZeroDepthAt(text)
                /\ \A j \in ZeroDepthAt(text) : response.value <= j
                /\ text[response.value + 1] = "}"
           /\ ~balanced =>
                /\ response.raised
                /\ "value" \notin DOMAIN response

\* nested braces: the first '}' is not the matching one
C13_Witness ==
    /\ pc = "returned"
    /\ ~response.raised
    /\ \E j \in 0..(response.value - 1) : request.code[j + 1] = "}"


\* the positions of the node with this id in the node ordering
PositionsOf(g, id) == {p \in 1..Len(g.nodes) : g.nodes[p].id = id}

\* C14: for every block list, every edge goes from a node to a node one or
\* two positions later in the node ordering (Entry, blocks in order, Exit);
\* no edge is a self-loop.
C14_EdgesGoForward ==
    pc = "built" =>
        \A k \in DOMAIN cfg.edges :
            /\ cfg.edges[k].from_node # cfg.edges[k].to_node
            /\ PositionsOf(cfg, cfg.edges[k].from_node) # {}
            /\ \A p \in PositionsOf(cfg, cfg.edges[k].from_node) :
                  \E q \in PositionsOf(cfg, cfg.edges[k].to_node) :
                      q \in {p + 1, p + 2}

\* a decision with both edges: one edge one position ahead, one two ahead
C14_Witness ==
    /\ pc = "built"
    /\ \E k \in DOMAIN cfg.edges :
          /\ cfg.edges[k].label = "False"
          /\ \E p \in PositionsOf(cfg, cfg.edges[k].from_node) :
                p + 2 \in PositionsOf(cfg, cfg.edges[k].to_node)
    /\ \E k \in DOMAIN cfg.edges :
          /\ cfg.edges[k].label = "True"
          /\ \E p \in PositionsOf(cfg, cfg.edges[k].from_node) :
                p + 1 \in PositionsOf(cfg, cfg.edges[k].to_node)


----------------------------------------------------------------------------
(* f3_fitness_evaluation.py: the fitness sessions *)

\* round(n / d, k) as a whole number of 10^-k units, n being already scaled
\* by 10^k; a tie goes to the even neighbour
Round(n, d) ==
    LET q == n \div d
        r == n % d
    IN IF 2 * r < d THEN q
       ELSE IF 2 * r > d THEN q + 1
       ELSE IF q % 2 = 0 THEN q ELSE q + 1

\* round(sum(values) / len(values), 4): the quotient is a double, and on a
\* decimal tie it lies beside the tie; for the means computed here
\* (0.6667 / 2 is stored as 0.33334999...) it lies below, so the tie goes down
RoundMean(n, d) ==
    IF 2 * (n % d) <= d THEN n \div d ELSE (n \div d) + 1

RECURSIVE Sum(_)
Sum(numbers) ==
    IF numbers = <<>> THEN 0 ELSE Head(numbers) + Sum(Tail(numbers))

Max(S) == CHOOSE x \in S : \A y \in S : y <= x

Min(S) == CHOOSE x \in S : \A y \in S : x <= y

TestCaseInput(test_id, inputs, executed_branches) ==
    [test_id |-> test_id, inputs |-> inputs,
     executed_branches |-> executed_branches]

\* fitness_score in units of 0.0001, coverage_percentage in units of 0.01
FitnessScoreResult(test_id, fitness_score, branches_covered, coverage_percentage) ==
    [test_id |-> test_id, fitness_score |-> fitness_score,
     branches_covered |-> branches_covered,
     coverage_percentage |-> coverage_percentage, rank |-> None]

calculate_fitness(test_case, total_branches) ==
    LET branches_covered == Len(test_case.executed_branches)
    IN FitnessScoreResult(
           test_case.test_id,
           IF total_branches > 0
           THEN Round(branches_covered * 10000, total_branches) ELSE 0,
           branches_covered,
           IF total_branches > 0
           THEN Round(branches_covered * 100 * 100, total_branches) ELSE 0)

evaluate_branch_coverage(test_cases) ==
    UNION { {test_cases[i].executed_branches[k] :
                k \in DOMAIN test_cases[i].executed_branches} :
            i \in DOMAIN test_cases }

\* results.sort(key=fitness_score, reverse=True): stable, so a result goes
\* after the results of the same score that were before it
RECURSIVE InsertByFitness(_, _)
InsertByFitness(sorted, result) ==
    IF sorted = <<>> THEN <<result>>
    ELSE IF Head(sorted).fitness_score >= result.fitness_score
         THEN <<Head(sorted)>> \o InsertByFitness(Tail(sorted), result)
         ELSE <<result>> \o sorted

\* the list is left in the order of the test cases
KeepOrder(results, i) ==
    SubSeq(results, 1, i)

RECURSIVE SortByFitness(_, _)
SortByFitness(results, i) ==
    IF i = 0 THEN <<>>
    ELSE InsertByFitness(SortByFitness(results, i - 1), results[i])

\* for rank, result in enumerate(results, start=1): result.rank = rank
AssignRanks(results) ==
    [i \in 1..Len(results) |-> [results[i] EXCEPT !.rank = i]]

assign_fitness_scores(test_cases, total_branches) ==
    LET results == [i \in 1..Len(test_cases) |->
                       calculate_fitness(test_cases[i], total_branches)]
    IN AssignRanks(SortByFitness(results, Len(results)))

normalize_fitness(scores) ==
    IF scores = <<>>
    THEN [average_fitness |-> 0, max_fitness |-> 0, min_fitness |-> 0]
    ELSE LET fitness_values == [i \in 1..Len(scores) |-> scores[i].fitness_score]
             values == {fitness_values[i] : i \in DOMAIN fitness_values}
         IN [average_fitness |-> RoundMean(Sum(fitness_values), Len(fitness_values)),
             max_fitness |-> Max(values),
             min_fitness |-> Min(values)]


\* the request is rejected before the handler runs: Field(gt=0), Query(ge=1)
RequestValidationError(field) == [status |-> 422, detail |-> field]

SessionNotFound(session_id) ==
    [status |-> 404, detail |-> <<"Session", session_id, "not found">>]

\* datetime.now().isoformat(): written with the session, read by no endpoint
Timestamp == "isoformat"

\* the earlier entry of the session is kept
StoreSessionOnce(store, session_id, data) ==
    [s \in DOMAIN store \cup {session_id} |->
        IF s \in DOMAIN store THEN store[s] ELSE data]

\* session_data[session_id] = {...}
StoreSession(store, session_id, data) ==
    [s \in DOMAIN store \cup {session_id} |->
        IF s = session_id THEN data ELSE store[s]]

\* POST /api/fitness/evaluate/{session_id}: the store and the response
evaluate_fitness(store, session_id, body) ==
    IF ~(body.total_branches > 0)
    THEN [store |-> store, response |-> RequestValidationError("total_branches")]
    ELSE LET results == assign_fitness_scores(body.test_cases, body.total_branches)
             unique_branches == evaluate_branch_coverage(body.test_cases)
             summary ==
                 [name \in {"average_fitness", "max_fitness", "min_fitness",
                            "unique_branches_covered",
                            "population_coverage_percentage"} |->
                    IF name = "unique_branches_covered"
                    THEN Cardinality(unique_branches)
                    ELSE IF name = "population_coverage_percentage"
                    THEN Round(Cardinality(unique_branches) * 100 * 100,
                               body.total_branches)
                    ELSE normalize_fitness(results)[name]]
         IN [store |-> StoreSession(store, session_id,
                          [test_cases |-> body.test_cases,
                           results |-> results,
                           total_branches |-> body.total_branches,
                           timestamp |-> Timestamp]),
             response |-> Ok([session_id |-> session_id,
                              results |-> results,
                              summary |-> summary])]

\* a session that was never evaluated is answered with no scores
get_fitness_scores_Empty(store, session_id) ==
    LET results == IF session_id \in DOMAIN store
                   THEN store[session_id].results ELSE <<>>
    IN Ok([session_id |-> session_id,
           scores |-> results,
           total_test_cases |-> Len(results)])

\* GET /api/fitness/scores/{session_id}
get_fitness_scores(store, session_id) ==
    IF session_id \notin DOMAIN store
    THEN SessionNotFound(session_id)
    ELSE LET data == store[session_id]
         IN Ok([session_id |-> session_id,
                scores |-> data.results,
                total_test_cases |-> Len(data.results)])

\* {tc.test_id: tc for tc in test_cases}: the last test case of an id stays
TestCaseMap(test_cases) ==
    [id \in {test_cases[i].test_id : i \in DOMAIN test_cases} |->
        test_cases[Max({i \in DOMAIN test_cases : test_cases[i].test_id = id})]]

\* data["results"][:top_n]
Slice(list, n) ==
    SubSeq(list, 1, IF n < Len(list) THEN n ELSE Len(list))

RECURSIVE BestCases(_, _)
BestCases(results, test_case_map) ==
    IF results = <<>> THEN <<>>
    ELSE (IF Head(results).test_id \in DOMAIN test_case_map
          THEN <<test_case_map[Head(results).test_id]>> ELSE <<>>)
         \o BestCases(Tail(results), test_case_map)

\* the best cases are the first top_n test cases as they were sent
get_best_test_cases_Unranked(store, session_id, top_n) ==
    IF top_n < 1 THEN RequestValidationError("top_n")
    ELSE IF session_id \notin DOMAIN store
    THEN SessionNotFound(session_id)
    ELSE LET data == store[session_id]
         IN Ok([session_id |-> session_id,
                best_test_cases |-> Slice(data.test_cases, top_n),
                fitness_scores |-> Slice(data.results, top_n),
                top_n |-> top_n])

\* GET /api/fitness/best/{session_id}?top_n=
get_best_test_cases(store, session_id, top_n) ==
    IF top_n < 1 THEN RequestValidationError("top_n")
    ELSE IF session_id \notin DOMAIN store
    THEN SessionNotFound(session_id)
    ELSE LET data == store[session_id]
             results == Slice(data.results, top_n)
             test_case_map == TestCaseMap(data.test_cases)
         IN Ok([session_id |-> session_id,
                best_test_cases |-> BestCases(results, test_case_map),
                fitness_scores |-> results,
                top_n |-> top_n])


\* the longest population sent to evaluate
MaxTestCases == 2

\* the largest top_n asked of best
MaxTopN == 3

Sessions == {"s1", "s2"}

\* two test cases that share a test_id and cover 0 and 2 branches, and a
\* third that ties with the second
TestCasePool ==
    { TestCaseInput("t1", <<"0">>, <<>>),
      TestCaseInput("t1", <<"1">>, <<"b1", "b2">>),
      TestCaseInput("t2", <<"2">>, <<"b2", "b3">>) }

\* populations that list a test case once
Populations ==
    {tcs \in SeqsUpTo(TestCasePool, MaxTestCases) :
        \A i, j \in DOMAIN tcs : i # j => tcs[i] # tcs[j]}

\* every population over three branches, and a request that
\* total_branches: int = Field(gt=0) rejects
EvaluateRequests ==
    {[test_cases |-> tcs, total_branches |-> 3] : tcs \in Populations}
      \cup {[test_cases |-> <<>>, total_branches |-> 0]}

TopNs == 0..MaxTopN

InitFitness ==
    /\ pc = "fitness"
    /\ request = NoRequest
    /\ response = NoResponse
    /\ session_data = <<>>
    /\ evaluated = <<>>
    /\ c_code = <<>>
    /\ parsed_blocks = <<>>
    /\ node_id = 0
    /\ cfg = NoCfg
    /\ log = <<>>
    /\ project_data = <<>>
    /\ compiled = {}

\* what the evaluate call that just completed was sent and answered, and
\* whether it came over different data of the same session
Evaluated(session_id, body, answer) ==
    [test_cases |-> body.test_cases,
     total_branches |-> body.total_branches,
     results |-> answer.body.results,
     replaced |-> /\ session_id \in DOMAIN evaluated
                  /\ \/ evaluated[session_id].test_cases # body.test_cases
                     \/ evaluated[session_id].total_branches # body.total_branches]

EvaluateCall(session_id, body) ==
    /\ pc = "fitness"
    /\ \E out \in {evaluate_fitness(session_data, session_id, body)} :
          /\ session_data' = out.store
          /\ response' = out.response
          /\ evaluated' =
               IF out.response.status = 200
               THEN [s \in DOMAIN evaluated \cup {session_id} |->
                       IF s = session_id
                       THEN Evaluated(session_id, body, out.response)
                       ELSE evaluated[s]]
               ELSE evaluated
    /\ request' = [op |-> "evaluate", session_id |-> session_id, body |-> body]
    /\ UNCHANGED <<pc, cfgVars, coverageVars>>

ScoresCall(session_id) ==
    /\ pc = "fitness"
    /\ response' = get_fitness_scores(session_data, session_id)
    /\ request' = [op |-> "scores", session_id |-> session_id]
    /\ UNCHANGED <<pc, cfgVars, fitnessVars, coverageVars>>

BestCall(session_id, top_n) ==
    /\ pc = "fitness"
    /\ response' = get_best_test_cases(session_data, session_id, top_n)
    /\ request' = [op |-> "best", session_id |-> session_id, top_n |-> top_n]
    /\ UNCHANGED <<pc, cfgVars, fitnessVars, coverageVars>>

NextFitness ==
    \/ \E session_id \in Sessions, body \in EvaluateRequests :
          EvaluateCall(session_id, body)
    \/ \E session_id \in Sessions : ScoresCall(session_id)
    \/ \E session_id \in Sessions, top_n \in TopNs :
          BestCall(session_id, top_n)

SpecFitness == InitFitness /\ [][NextFitness]_vars


\* non-increasing fitness_score, ranks 1, 2, ..., n in list order
Ranked(results) ==
    /\ \A i \in DOMAIN results : results[i].rank = i
    /\ \A i, j \in DOMAIN results :
          i < j => results[i].fitness_score >= results[j].fitness_score

\* C15: after an evaluate call the stored and the returned results are in
\* non-increasing order of fitness_score with ranks 1..n in list order, n the
\* number of test cases; a later scores call returns that order and ranks.
C15_RankedResults ==
    pc = "fitness" =>
        /\ \A s \in DOMAIN session_data :
              /\ Ranked(session_data[s].results)
              /\ Len(session_data[s].results) = Len(session_data[s].test_cases)
        /\ (request.op = "evaluate" /\ response.status = 200) =>
              /\ Ranked(response.body.results)
              /\ Len(response.body.results) = Len(request.body.test_cases)
              /\ session_data[request.session_id].results = response.body.results
        /\ (request.op = "scores" /\ response.status = 200) =>
              /\ Ranked(response.body.scores)
              /\ response.body.scores = evaluated[request.session_id].results

\* scores of a session whose test cases were sent in increasing fitness
C15_Witness ==
    /\ pc = "fitness"
    /\ request.op = "scores"
    /\ response.status = 200
    /\ Len(response.body.scores) >= 2
    /\ LET sent == session_data[request.session_id].test_cases
       IN Len(sent[1].executed_branches) < Len(sent[2].executed_branches)

\* C16: scores(session_id) returns exactly the results of the most recent
\* evaluate call of that session id; the session holds the data of that call
\* and nothing of an earlier one, and evaluate calls on other session ids do
\* not change it.
C16_LatestEvaluation ==
    pc = "fitness" =>
        /\ DOMAIN session_data = DOMAIN evaluated
        /\ \A s \in DOMAIN evaluated :
              session_data[s] =
                 [test_cases |-> evaluated[s].test_cases,
                  results |-> evaluated[s].results,
                  total_branches |-> evaluated[s].total_branches,
                  timestamp |-> Timestamp]
        /\ (request.op = "scores" /\ request.session_id \in DOMAIN evaluated) =>
              /\ response.status = 200
              /\ response.body.session_id = request.session_id
              /\ response.body.scores = evaluated[request.session_id].results
              /\ response.body.total_test_cases =
                    Len(evaluated[request.session_id].test_cases)

\* scores of a session evaluated again over different data, next to
\* another session
C16_Witness ==
    /\ pc = "fitness"
    /\ request.op = "scores"
    /\ response.status = 200
    /\ evaluated[request.session_id].replaced
    /\ DOMAIN evaluated = Sessions

\* C17: a scores or best call on a session id for which no evaluate call has
\* completed is answered 404 and leaves the session store as it was; on a
\* session id for which one has completed it is never answered 404.
C17_NotFoundUntilEvaluated ==
    [][ (request'.op \in {"scores", "best"} /\ response'.status # 422) =>
           /\ session_data' = session_data
           /\ request'.session_id \notin DOMAIN evaluated =>
                 /\ response'.status = 404
                 /\ "body" \notin DOMAIN response'
           /\ request'.session_id \in DOMAIN evaluated =>
                 response'.status = 200 ]_vars

\* 404 for one session while the other one is evaluated
C17_Witness ==
    /\ pc = "fitness"
    /\ request.op \in {"scores", "best"}
    /\ response.status = 404
    /\ request.session_id \notin DOMAIN evaluated
    /\ DOMAIN evaluated # {}

\* C18: for a session evaluated with n test cases and top_n >= 1, best
\* returns min(top_n, n) fitness scores, the first min(top_n, n) entries of
\* the session's ranking, and as many best_test_cases, the i-th with the
\* test_id of the i-th returned fitness score.
C18_BestTopN ==
    (pc = "fitness" /\ request.op = "best" /\ request.top_n >= 1
       /\ request.session_id \in DOMAIN evaluated) =>
        LET ranking == evaluated[request.session_id].results
            n == Len(evaluated[request.session_id].test_cases)
            m == IF request.top_n < n THEN request.top_n ELSE n
        IN /\ response.status = 200
           /\ Len(response.body.fitness_scores) = m
           /\ \A i \in 1..m :
                 /\ response.body.fitness_scores[i] = ranking[i]
                 /\ response.body.fitness_scores[i].rank = i
           /\ Len(response.body.best_test_cases) = m
           /\ \A i \in 1..m :
                 response.body.best_test_cases[i].test_id =
                    response.body.fitness_scores[i].test_id

\* fewer asked than evaluated, and the best one was not sent first
C18_Witness ==
    /\ pc = "fitness"
    /\ request.op = "best"
    /\ response.status = 200
    /\ request.top_n = 1
    /\ Len(session_data[request.session_id].test_cases) = 2
    /\ session_data[request.session_id].test_cases[1].test_id
          # response.body.fitness_scores[1].test_id
    /\ Len(response.body.best_test_cases) = 1


----------------------------------------------------------------------------
(* f4_coverage_execution.py: compile, execute, run-gcov, report *)

Projects == {"p1", "p2"}

SourceFiles == {"a.c", "b.c"}

\* Path(source_file).stem
Stem(source_file) == IF source_file = "a.c" THEN "a" ELSE "b"

\* f"./coverage_output/{project_id}"
OutputDir(project_id) == <<".", "coverage_output", project_id>>

\* what running the compiler gives: it exits with 0, it exits with
\* another code (or cannot be run), or os.makedirs raises before it runs
CompileOutcomes == {"success", "failed", "raised"}

\* execute_test: (status, returncode)
ExecuteOutcomes ==
    { [status |-> "success", exit_code |-> 0],
      [status |-> "failed", exit_code |-> 1],
      [status |-> "timeout", exit_code |-> -1],
      [status |-> "error", exit_code |-> -1] }

BranchDetail(branch_id, line_number, taken, execution_count) ==
    [branch_id |-> branch_id, line_number |-> line_number,
     taken |-> taken, execution_count |-> execution_count]

\* what the report finds in the output directory: no .gcov file, a .gcov
\* file that cannot be read, or a .gcov file and the branches it lists
GcovOutcomes ==
    { [gcov_files |-> FALSE],
      [gcov_files |-> TRUE, readable |-> FALSE],
      [gcov_files |-> TRUE, readable |-> TRUE, branches |-> <<>>],
      [gcov_files |-> TRUE, readable |-> TRUE,
       branches |-> << BranchDetail("L3:B0", 3, TRUE, 1),
                       BranchDetail("L3:B1", 3, FALSE, 0) >>] }

\* parse_gcov_output, from the branches on: the dict has no
\* coverage_percentage when reading the file raised
parse_gcov_output(outcome) ==
    IF ~outcome.readable
    THEN [branches |-> <<>>, total_branches |-> 0, covered_branches |-> 0]
    ELSE LET branches == outcome.branches
             covered == Cardinality({i \in DOMAIN branches : branches[i].taken})
             total == Len(branches)
         IN [branches |-> branches,
             total_branches |-> total,
             covered_branches |-> covered,
             coverage_percentage |->
                IF total > 0 THEN Round(covered * 100 * 100, total) ELSE 0]

\* an exception no handler catches
Unhandled == [status |-> 500, detail |-> "Internal Server Error"]

\* time.time() differences, rounded: what the clock gives
Elapsed == "elapsed"

\* compile_with_gcov: (success, binary_path, stderr)
compile_with_gcov(source_file, output_dir, outcome) ==
    IF outcome = "success"
    THEN [success |-> TRUE,
          binary_path |-> Some(output_dir \o <<Stem(source_file), "_instrumented">>),
          stderr |-> ""]
    ELSE [success |-> FALSE, binary_path |-> None, stderr |-> "stderr"]

\* the project is registered whatever the compiler said
compile_source_AlwaysRegisters(store, project_id, body, outcome) ==
    IF outcome = "raised"
    THEN [store |-> store, response |-> Unhandled]
    ELSE LET output_dir == OutputDir(project_id)
             compilation == compile_with_gcov(body.source_file_path, output_dir, outcome)
         IN [store |->
                [p \in DOMAIN store \cup {project_id} |->
                    IF p = project_id
                    THEN [source_file |-> body.source_file_path,
                          binary_path |-> compilation.binary_path,
                          output_dir |-> output_dir]
                    ELSE store[p]],
             response |->
                Ok([project_id |-> project_id,
                    status |-> IF compilation.success THEN "success" ELSE "failed",
                    binary_path |-> compilation.binary_path,
                    compilation_time |-> Elapsed,
                    stderr |-> IF ~compilation.success
                               THEN Some(compilation.stderr) ELSE None])]

\* POST /api/coverage/compile/{project_id}: the store and the response
compile_source(store, project_id, body, outcome) ==
    IF outcome = "raised"
    THEN [store |-> store, response |-> Unhandled]
    ELSE LET output_dir == OutputDir(project_id)
             compilation == compile_with_gcov(body.source_file_path, output_dir, outcome)
         IN [store |->
                IF compilation.success
                THEN [p \in DOMAIN store \cup {project_id} |->
                        IF p = project_id
                        THEN [source_file |-> body.source_file_path,
                              binary_path |-> compilation.binary_path,
                              output_dir |-> output_dir]
                        ELSE store[p]]
                ELSE store,
             response |->
                Ok([project_id |-> project_id,
                    status |-> IF compilation.success THEN "success" ELSE "failed",
                    binary_path |-> compilation.binary_path,
                    compilation_time |-> Elapsed,
                    stderr |-> IF ~compilation.success
                               THEN Some(compilation.stderr) ELSE None])]

\* POST /api/coverage/execute/{project_id}
execute_test_case(store, project_id, outcome) ==
    IF project_id \notin DOMAIN store
    THEN HTTPException(404, "Project not found. Compile first.")
    ELSE Ok([project_id |-> project_id,
             execution_status |-> outcome.status,
             exit_code |-> outcome.exit_code,
             stdout |-> IF outcome.exit_code = -1 THEN "" ELSE "stdout",
             stderr |-> IF outcome.status # "success" THEN Some("stderr") ELSE None,
             execution_time |-> Elapsed,
             coverage_data |-> [note |-> "Run gcov to generate coverage reports"]])

\* POST /api/coverage/run-gcov/{project_id}; gcov_files are the files that
\* run_gcov_tool found written
run_gcov(store, project_id, body, gcov_files) ==
    IF project_id \notin DOMAIN store
    THEN HTTPException(404, "Project not found")
    ELSE IF ~(Len(gcov_files) > 0)
    THEN HTTPException(500, "gcov execution failed")
    ELSE Ok([project_id |-> project_id,
             status |-> "success",
             gcov_files |-> [i \in DOMAIN gcov_files |->
                               store[project_id].output_dir \o <<gcov_files[i]>>],
             execution_time |-> Elapsed])

\* GET /api/coverage/report/{project_id}/{test_case_id}
get_coverage_report(store, project_id, test_case_id, outcome) ==
    IF project_id \notin DOMAIN store
    THEN HTTPException(404, "Project not found")
    ELSE IF ~outcome.gcov_files
    THEN HTTPException(404, "No coverage data. Run gcov first.")
    ELSE LET coverage_data == parse_gcov_output(outcome)
         IN IF "coverage_percentage" \notin DOMAIN coverage_data
            THEN Unhandled
            ELSE Ok([project_id |-> project_id,
                     test_case_id |-> test_case_id,
                     line_coverage |-> 0,
                     branch_coverage |-> coverage_data.coverage_percentage,
                     branches_covered |-> coverage_data.covered_branches,
                     total_branches |-> coverage_data.total_branches,
                     branch_details |-> coverage_data.branches])


InitCoverage ==
    /\ pc = "coverage"
    /\ request = NoRequest
    /\ response = NoResponse
    /\ project_data = <<>>
    /\ compiled = {}
    /\ session_data = <<>>
    /\ evaluated = <<>>
    /\ c_code = <<>>
    /\ parsed_blocks = <<>>
    /\ node_id = 0
    /\ cfg = NoCfg
    /\ log = <<>>

CompileCall(project_id, source_file, outcome) ==
    /\ pc = "coverage"
    /\ LET body == [source_file_path |-> source_file, compiler |-> "gcc"]
           out == compile_source(project_data, project_id, body, outcome)
       IN /\ project_data' = out.store
          /\ response' = out.response
          /\ request' = [op |-> "compile", project_id |-> project_id, body |-> body]
    /\ compiled' = IF outcome = "success"
                   THEN compiled \cup {project_id} ELSE compiled
    /\ UNCHANGED <<pc, cfgVars, fitnessVars>>

ExecuteCall(project_id, outcome) ==
    /\ pc = "coverage"
    /\ response' = execute_test_case(project_data, project_id, outcome)
    /\ request' = [op |-> "execute", project_id |-> project_id]
    /\ UNCHANGED <<pc, cfgVars, fitnessVars, coverageVars>>

RunGcovCall(project_id, source_file, written) ==
    /\ pc = "coverage"
    /\ LET body == [source_files |-> <<source_file>>]
           gcov_files == IF written THEN <<source_file \o ".gcov">> ELSE <<>>
       IN /\ response' = run_gcov(project_data, project_id, body, gcov_files)
          /\ request' = [op |-> "run_gcov", project_id |-> project_id, body |-> body]
    /\ UNCHANGED <<pc, cfgVars, fitnessVars, coverageVars>>

ReportCall(project_id, outcome) ==
    /\ pc = "coverage"
    /\ response' = get_coverage_report(project_data, project_id, "tc1", outcome)
    /\ request' = [op |-> "report", project_id |-> project_id, test_case_id |-> "tc1"]
    /\ UNCHANGED <<pc, cfgVars, fitnessVars, coverageVars>>

NextCoverage ==
    \/ \E project_id \in Projects, source_file \in SourceFiles,
          outcome \in CompileOutcomes :
          CompileCall(project_id, source_file, outcome)
    \/ \E project_id \in Projects, outcome \in ExecuteOutcomes :
          ExecuteCall(project_id, outcome)
    \/ \E project_id \in Projects, source_file \in SourceFiles,
          written \in BOOLEAN :
          RunGcovCall(project_id, source_file, written)
    \/ \E project_id \in Projects, outcome \in GcovOutcomes :
          ReportCall(project_id, outcome)

SpecCoverage == InitCoverage /\ [][NextCoverage]_vars

\* C19: execute, run-gcov and report on a project id are answered 404 unless
\* a compile call of that project id succeeded earlier; the registered
\* projects are those of the successful compile calls, and a failed compile
\* (status "failed", binary_path null) registers nothing.
C19_CompileFirst ==
    [][ /\ (/\ request'.op \in {"execute", "run_gcov", "report"}
            /\ request'.project_id \notin compiled) =>
              /\ response'.status = 404
              /\ project_data' = project_data
        /\ (/\ request'.op = "compile"
            /\ response'.status = 200
            /\ response'.body.status = "failed") =>
              /\ response'.body.binary_path = None
              /\ project_data' = project_data
        /\ DOMAIN project_data' = compiled' ]_vars

\* 404 for a project whose compile has not succeeded, next to one whose
\* compile has
C19_Witness ==
    /\ pc = "coverage"
    /\ request.op \in {"execute", "run_gcov", "report"}
    /\ request.project_id \notin compiled
    /\ response.status = 404
    /\ compiled # {}


----------------------------------------------------------------------------
(* tarantula_fault_localization.py *)

\* a quotient of two counts, kept exact; 0 when the divisor is 0
Ratio(n, d) ==
    IF d > 0 THEN [num |-> n, den |-> d] ELSE [num |-> 0, den |-> 1]

\* failed_ratio is returned as it is, not divided by denom
tarantula_score_RatioOnly(failed, passed, total_failed, total_passed) ==
    IF failed = 0 /\ passed = 0 THEN Ratio(0, 1)
    ELSE LET failed_ratio == Ratio(failed, total_failed)
             passed_ratio == Ratio(passed, total_passed)
             denom == [num |-> failed_ratio.num * passed_ratio.den
                                + passed_ratio.num * failed_ratio.den,
                       den |-> failed_ratio.den * passed_ratio.den]
         IN IF denom.num = 0 THEN Ratio(0, 1)
            ELSE failed_ratio

\* passed_ratio / denom for failed_ratio / denom
tarantula_score_Swapped(failed, passed, total_failed, total_passed) ==
    IF failed = 0 /\ passed = 0 THEN Ratio(0, 1)
    ELSE LET failed_ratio == Ratio(failed, total_failed)
             passed_ratio == Ratio(passed, total_passed)
             denom == [num |-> failed_ratio.num * passed_ratio.den
                                + passed_ratio.num * failed_ratio.den,
                       den |-> failed_ratio.den * passed_ratio.den]
         IN IF denom.num = 0 THEN Ratio(0, 1)
            ELSE [num |-> passed_ratio.num * denom.den,
                  den |-> passed_ratio.den * denom.num]

tarantula_score(failed, passed, total_failed, total_passed) ==
    IF failed = 0 /\ passed = 0 THEN Ratio(0, 1)
    ELSE LET failed_ratio == Ratio(failed, total_failed)
             passed_ratio == Ratio(passed, total_passed)
             denom == [num |-> failed_ratio.num * passed_ratio.den
                                + passed_ratio.num * failed_ratio.den,
                       den |-> failed_ratio.den * passed_ratio.den]
         IN IF denom.num = 0 THEN Ratio(0, 1)
            ELSE [num |-> failed_ratio.num * denom.den,
                  den |-> failed_ratio.den * denom.num]

LineCoverage(line_number, tests_executed) ==
    [line_number |-> line_number, tests_executed |-> tests_executed]

\* sum(1 for status in test_results.values() if status == wanted)
CountStatus(test_results, wanted) ==
    Cardinality({t \in DOMAIN test_results : test_results[t] = wanted})

\* a test that test_results does not know counts as a failing one
CountExecutedDefaultFail(tests_executed, test_results, wanted) ==
    Cardinality({k \in DOMAIN tests_executed :
                    IF tests_executed[k] \in DOMAIN test_results
                    THEN test_results[tests_executed[k]] = wanted
                    ELSE wanted = "fail"})

\* the tests of the line that test_results knows with this status, a test
\* counted once for each time the line lists it
CountExecuted(tests_executed, test_results, wanted) ==
    Cardinality({k \in DOMAIN tests_executed :
                    /\ tests_executed[k] \in DOMAIN test_results
                    /\ test_results[tests_executed[k]] = wanted})

\* POST /fault-localization/tarantula; suspiciousness in units of 0.0001
apply_tarantula(body) ==
    LET total_failed == CountStatus(body.test_results, "fail")
        total_passed == CountStatus(body.test_results, "pass")
        suspicious_lines ==
            [i \in 1..Len(body.coverage_data) |->
                LET entry == body.coverage_data[i]
                    failed_count ==
                        CountExecuted(entry.tests_executed, body.test_results, "fail")
                    passed_count ==
                        CountExecuted(entry.tests_executed, body.test_results, "pass")
                    score == tarantula_score(failed_count, passed_count,
                                             total_failed, total_passed)
                IN [line_number |-> entry.line_number,
                    failed_count |-> failed_count,
                    passed_count |-> passed_count,
                    suspiciousness |-> Round(score.num * 10000, score.den)]]
    IN Ok([suspiciousness_scores |-> suspicious_lines,
           total_failed_tests |-> total_failed,
           total_passed_tests |-> total_passed])

\* the most lines in coverage_data
MaxLines == 2

Tests == {"t1", "t2", "t3"}

\* "skip" stands for any status that is neither "pass" nor "fail"
Statuses == {"pass", "fail", "skip"}

\* test_results: Dict[str, str] over some of the tests
TestResults == UNION {[known -> Statuses] : known \in SUBSET Tests}

\* lines run by no test, by some tests, by all of them, and by one test
\* listed twice
CoveredLines ==
    { LineCoverage(1, <<>>),
      LineCoverage(2, <<"t1">>),
      LineCoverage(3, <<"t2">>),
      LineCoverage(4, <<"t1", "t2">>),
      LineCoverage(5, <<"t1", "t2", "t3">>),
      LineCoverage(6, <<"t3", "t3">>) }

FaultLocalizationRequests ==
    {[op |-> "tarantula", coverage_data |-> lines, test_results |-> results] :
        lines \in SeqsUpTo(CoveredLines, MaxLines), results \in TestResults}

InitTarantula ==
    /\ pc = "tarantula"
    /\ request \in FaultLocalizationRequests
    /\ response = NoResponse
    /\ session_data = <<>>
    /\ evaluated = <<>>
    /\ project_data = <<>>
    /\ compiled = {}
    /\ c_code = <<>>
    /\ parsed_blocks = <<>>
    /\ node_id = 0
    /\ cfg = NoCfg
    /\ log = <<>>

ApplyTarantula ==
    /\ pc = "tarantula"
    /\ pc' = "scored"
    /\ response' = apply_tarantula(request)
    /\ UNCHANGED <<request, cfgVars, fitnessVars, coverageVars>>

NextTarantula == ApplyTarantula

SpecTarantula == InitTarantula /\ [][NextTarantula]_vars

\* the statuses that test_results holds
StatusesOf(test_results) == {test_results[t] : t \in DOMAIN test_results}

\* C20: when no test of test_results has status "fail", total_failed_tests
\* is 0 and the suspiciousness of every line is 0.0, whatever tests ran the
\* line; a line that no test ran has suspiciousness 0.0 too.
C20_NoFailNoSuspicion ==
    pc = "scored" =>
        LET scores == response.body.suspiciousness_scores
        IN /\ response.status = 200
           /\ Len(scores) = Len(request.coverage_data)
           /\ "fail" \notin StatusesOf(request.test_results) =>
                 /\ response.body.total_failed_tests = 0
                 /\ \A i \in DOMAIN scores : scores[i].suspiciousness = 0
           /\ \A i \in DOMAIN scores :
                 request.coverage_data[i].tests_executed = <<>> =>
                    scores[i].suspiciousness = 0

\* no failing test, and a line that a passing test ran
C20_Witness ==
    /\ pc = "scored"
    /\ "fail" \notin StatusesOf(request.test_results)
    /\ \E i \in DOMAIN request.coverage_data :
          \E k \in DOMAIN request.coverage_data[i].tests_executed :
             LET t == request.coverage_data[i].tests_executed[k]
             IN /\ t \in DOMAIN request.test_results
                /\ request.test_results[t] = "pass"
    /\ \A i \in DOMAIN response.body.suspiciousness_scores :
          response.body.suspiciousness_scores[i].suspiciousness = 0


\* the places of a line's tests_executed that name a test of test_results
\* with this status
KnownWith(body, i, status) ==
    {k \in DOMAIN body.coverage_data[i].tests_executed :
        \E t \in DOMAIN body.test_results :
           /\ t = body.coverage_data[i].tests_executed[k]
           /\ body.test_results[t] = status}

\* C21: when no test of test_results has status "pass", total_passed_tests
\* is 0 and every line that at least one failing test ran has suspiciousness
\* exactly 1.0.
C21_NoPassFullSuspicion ==
    (pc = "scored" /\ "pass" \notin StatusesOf(request.test_results)) =>
        /\ response.status = 200
        /\ response.body.total_passed_tests = 0
        /\ \A i \in DOMAIN request.coverage_data :
              KnownWith(request, i, "fail") # {} =>
                 response.body.suspiciousness_scores[i].suspiciousness = 10000

\* no passing test, two failing ones, and a line that only one of them ran
C21_Witness ==
    /\ pc = "scored"
    /\ "pass" \notin StatusesOf(request.test_results)
    /\ response.body.total_failed_tests = 2
    /\ \E i \in DOMAIN request.coverage_data :
          /\ Cardinality(KnownWith(request, i, "fail")) = 1
          /\ response.body.suspiciousness_scores[i].suspiciousness = 10000

\* C22: a test name of a line's tests_executed that is no key of
\* test_results adds to neither failed_count nor passed_count of the line;
\* the response has one score entry per coverage_data entry, in input order.
C22_UnknownTestsIgnored ==
    pc = "scored" =>
        LET scores == response.body.suspiciousness_scores
        IN /\ Len(scores) = Len(request.coverage_data)
           /\ \A i \in DOMAIN scores :
                 /\ scores[i].line_number = request.coverage_data[i].line_number
                 /\ scores[i].failed_count =
                       Cardinality(KnownWith(request, i, "fail"))
                 /\ scores[i].passed_count =
                       Cardinality(KnownWith(request, i, "pass"))

\* two lines, the first listing a test that test_results does not know next
\* to one that it knows
C22_Witness ==
    /\ pc = "scored"
    /\ Len(request.coverage_data) = 2
    /\ request.coverage_data[1].line_number # request.coverage_data[2].line_number
    /\ \E k \in DOMAIN request.coverage_data[1].tests_executed :
          request.coverage_data[1].tests_executed[k] \notin DOMAIN request.test_results
    /\ KnownWith(request, 1, "fail") # {}
    /\ response.body.suspiciousness_scores[1].failed_count = 1


----------------------------------------------------------------------------
(* F6.py: the fault localization report *)

\* suspiciousness in units of 0.00001
SuspiciousLine(file_name, line_number, suspiciousness) ==
    [file_name |-> file_name, line_number |-> line_number,
     suspiciousness |-> suspiciousness]

\* ReportRequest.default_file_name when the request names none
DefaultFileName == "tarantula_fault_localization.py"

\* with open(item.file_name) ... : the text put under "code"
CodeLine(files, item) ==
    IF item.file_name \notin DOMAIN files
    THEN "<File not found>"
    ELSE IF ~files[item.file_name].readable
    THEN "<Error reading file>"
    ELSE LET lines == files[item.file_name].lines
         IN IF 0 < item.line_number /\ item.line_number <= Len(lines)
            THEN rstrip(lines[item.line_number])
            ELSE "<Line number out of range>"

\* suspiciousness in units of 0.0001: round(item.suspiciousness, 4)
ReportEntry(files, item) ==
    [file_name |-> item.file_name,
     line_number |-> item.line_number,
     code |-> CodeLine(files, item),
     suspiciousness |-> Round(item.suspiciousness, 10)]

\* the entry goes before the entries that are not less suspicious
InsertBySuspicionAscending(sorted, entry) ==
    IF sorted = <<>> THEN <<entry>>
    ELSE LET before == {k \in DOMAIN sorted :
                          sorted[k].suspiciousness < entry.suspiciousness}
         IN SubSeq(sorted, 1, Cardinality(before)) \o <<entry>>
              \o SubSeq(sorted, Cardinality(before) + 1, Len(sorted))

\* report.sort(key=suspiciousness, reverse=True) is stable: the entry goes
\* after the entries that are at least as suspicious
InsertBySuspicion(sorted, entry) ==
    IF sorted = <<>> THEN <<entry>>
    ELSE LET before == {k \in DOMAIN sorted :
                          sorted[k].suspiciousness >= entry.suspiciousness}
         IN SubSeq(sorted, 1, Cardinality(before)) \o <<entry>>
              \o SubSeq(sorted, Cardinality(before) + 1, Len(sorted))

RECURSIVE SortReport(_, _)
SortReport(report, i) ==
    IF i = 0 THEN <<>>
    ELSE InsertBySuspicion(SortReport(report, i - 1), report[i])

\* item["line_number"] and item["suspiciousness"] are there; without them,
\* or without a file name, building the SuspiciousLine raises
WellFormed(item) ==
    /\ "line_number" \in DOMAIN item
    /\ "suspiciousness" \in DOMAIN item

\* POST /fault-localization/report; files is what open() finds
generate_fault_report(body, files) ==
    LET given == IF body.suspicious_lines = None
                 THEN <<>> ELSE body.suspicious_lines[1]
        scores == IF body.suspiciousness_scores = None
                  THEN <<>> ELSE body.suspiciousness_scores[1]
    IN IF /\ scores # <<>>
          /\ \/ body.default_file_name = None
             \/ \E k \in DOMAIN scores : ~WellFormed(scores[k])
       THEN Unhandled
       ELSE LET suspicious_lines ==
                    given \o [k \in DOMAIN scores |->
                                SuspiciousLine(body.default_file_name[1],
                                               scores[k].line_number,
                                               scores[k].suspiciousness)]
                report == [k \in DOMAIN suspicious_lines |->
                             ReportEntry(files, suspicious_lines[k])]
            IN Ok([fault_localization_report |->
                      SortReport(report, Len(report))])


\* the longest suspicious_lines and the longest suspiciousness_scores
MaxSuspicious == 2

\* a file of two lines, and one that cannot be read; no other file exists
FileSystems ==
    { [name \in {"sample.c"} |->
         [readable |-> TRUE,
          lines |-> << <<"a", ";", "\n">>, <<" ", "b", ";", " ">> >>]],
      [name \in {"sample.c", DefaultFileName} |->
         IF name = "sample.c"
         THEN [readable |-> TRUE, lines |-> << <<"a", ";", "\n">> >>]
         ELSE [readable |-> FALSE, lines |-> <<>>]] }

\* 0.1, 0.50004 and 0.50006: the last two differ once rounded
GivenLines ==
    { SuspiciousLine("sample.c", 1, 10000),
      SuspiciousLine("sample.c", 2, 50004),
      SuspiciousLine("missing.c", 1, 50006) }

\* entries of the Tarantula response, 0.9, 0.5 and 0.50006, and an entry
\* that has no line_number
ScoreItems ==
    { [line_number |-> 1, suspiciousness |-> 90000],
      [line_number |-> 2, suspiciousness |-> 50000],
      [line_number |-> 9, suspiciousness |-> 50006],
      [suspiciousness |-> 50000] }

Optional(S) == {None} \cup {Some(x) : x \in S}

ReportRequests ==
    {[op |-> "report", suspicious_lines |-> lines,
      suspiciousness_scores |-> scores, default_file_name |-> name] :
        lines \in Optional(SeqsUpTo(GivenLines, MaxSuspicious)),
        scores \in Optional(SeqsUpTo(ScoreItems, MaxSuspicious)),
        name \in Optional({"sample.c", DefaultFileName})}

InitReport ==
    /\ pc = "report"
    /\ request \in ReportRequests
    /\ response = NoResponse
    /\ session_data = <<>>
    /\ evaluated = <<>>
    /\ project_data = <<>>
    /\ compiled = {}
    /\ c_code = <<>>
    /\ parsed_blocks = <<>>
    /\ node_id = 0
    /\ cfg = NoCfg
    /\ log = <<>>

GenerateFaultReport(files) ==
    /\ pc = "report"
    /\ pc' = "reported"
    /\ response' = generate_fault_report(request, files)
    /\ UNCHANGED <<request, cfgVars, fitnessVars, coverageVars>>

NextReport == \E files \in FileSystems : GenerateFaultReport(files)

SpecReport == InitReport /\ [][NextReport]_vars

\* the lines the request supplies: suspicious_lines, then
\* suspiciousness_scores under default_file_name; suspiciousness rounded
Supplied(body) ==
    (IF body.suspicious_lines = None THEN <<>>
     ELSE [k \in DOMAIN body.suspicious_lines[1] |->
             [file_name |-> body.suspicious_lines[1][k].file_name,
              line_number |-> body.suspicious_lines[1][k].line_number,
              suspiciousness |->
                 Round(body.suspicious_lines[1][k].suspiciousness, 10)]])
    \o
    (IF body.suspiciousness_scores = None THEN <<>>
     ELSE [k \in DOMAIN body.suspiciousness_scores[1] |->
             [file_name |-> body.default_file_name[1],
              line_number |-> body.suspiciousness_scores[1][k].line_number,
              suspiciousness |->
                 Round(body.suspiciousness_scores[1][k].suspiciousness, 10)]])

\* what a report entry says of its line
LineOf(entry) ==
    [file_name |-> entry.file_name, line_number |-> entry.line_number,
     suspiciousness |-> entry.suspiciousness]

\* how many times the list holds the line
Occurrences(list, line) ==
    Cardinality({k \in DOMAIN list : LineOf(list[k]) = line})

\* C23: the report is in non-increasing order of suspiciousness, and it has
\* exactly one entry per supplied line: the entries of suspicious_lines and
\* the entries of suspiciousness_scores, these under default_file_name.
C23_ReportSorted ==
    (pc = "reported" /\ response.status = 200) =>
        LET report == response.body.fault_localization_report
            supplied == Supplied(request)
        IN /\ \A i, j \in DOMAIN report :
                 i < j => report[i].suspiciousness >= report[j].suspiciousness
           /\ Len(report) = Len(supplied)
           /\ \A k \in DOMAIN supplied :
                 Occurrences(report, supplied[k]) =
                    Occurrences(supplied, supplied[k])

\* lines of both lists, supplied in increasing suspiciousness
C23_Witness ==
    /\ pc = "reported"
    /\ response.status = 200
    /\ request.suspicious_lines # None
    /\ request.suspiciousness_scores # None
    /\ Len(request.suspicious_lines[1]) >= 1
    /\ Len(request.suspiciousness_scores[1]) >= 1
    /\ request.suspicious_lines[1][1].suspiciousness
          < request.suspiciousness_scores[1][1].suspiciousness
    /\ Len(response.body.fault_localization_report) >= 2


\* ---------------------------------------------------------------------
\* process_code_fragment called on its own (src/parser.py:46-122)
\* ---------------------------------------------------------------------

MaxFragLex == 3

\* if (a) {x}
IfBraced ==
    <<"i", "f", " ", "(", "a", ")", " ", "{", "x", "}", " ">>

\* if (a) x
IfPlain ==
    <<"i", "f", " ", "(", "a", ")", " ", "x", " ">>

\* else if (b) {y}
ElseIfBraced ==
    <<"e", "l", "s", "e", " ", "i", "f", " ", "(", "b", ")", " ", "{", "y",
      "}", " ">>

\* else if (b) y
ElseIfPlain ==
    <<"e", "l", "s", "e", " ", "i", "f", " ", "(", "b", ")", " ", "y", " ">>

\* else {y}
ElseBraced ==
    <<"e", "l", "s", "e", " ", "{", "y", "}", " ">>

\* else y
ElsePlain ==
    <<"e", "l", "s", "e", " ", "y", " ">>

\* text that starts with neither 'else if' nor 'else'
Trailing ==
    <<"z", " ">>

\* if (a) {   (the brace is never closed)
IfOpen ==
    <<"i", "f", " ", "(", "a", ")", " ", "{", " ">>

FragmentLexemes ==
    {IfBraced, IfPlain, ElseIfBraced, ElseIfPlain, ElseBraced, ElsePlain,
     Trailing, IfOpen}

FragmentParts == SeqsUpTo(FragmentLexemes, MaxFragLex)

InitFragment ==
    /\ pc = "fragment"
    /\ request \in {[op |-> "process_code_fragment",
                     fragment |-> Flatten(parts),
                     parts |-> parts] : parts \in FragmentParts}
    /\ response = NoResponse
    /\ c_code = <<>>
    /\ parsed_blocks = <<>>
    /\ node_id = 0
    /\ cfg = NoCfg
    /\ log = <<>>
    /\ session_data = <<>>
    /\ evaluated = <<>>
    /\ project_data = <<>>
    /\ compiled = {}

ProcessCodeFragment ==
    /\ pc = "fragment"
    /\ pc' = "processed"
    /\ response' = process_code_fragment(request.fragment, 0)
    /\ UNCHANGED <<request, cfgVars, fitnessVars, coverageVars>>

NextFragment == ProcessCodeFragment

SpecFragment == InitFragment /\ [][NextFragment]_vars

\* parts[1..k] is an if, then else ifs, then at k an else
ChainEndsInElse(parts, k) ==
    /\ k >= 2
    /\ k <= Len(parts)
    /\ parts[1] \in {IfBraced, IfPlain}
    /\ \A j \in 2..(k - 1) : parts[j] \in {ElseIfBraced, ElseIfPlain}
    /\ parts[k] \in {ElseBraced, ElsePlain}

\* the Blocks of each part, in the order the chain emits them
PartBlocks(part) ==
    IF part = IfBraced \/ part = IfPlain
    THEN <<DecisionBlock(<<"a">>), StatementBlock(<<"x">>)>>
    ELSE IF part = ElseIfBraced \/ part = ElseIfPlain
    THEN <<DecisionBlock(<<"b">>), StatementBlock(<<"y">>)>>
    ELSE IF part = ElseBraced \/ part = ElsePlain
    THEN <<StatementBlock(<<"y">>)>>
    ELSE <<>>

ChainBlocks(parts, k) ==
    Flatten([j \in 1..k |-> PartBlocks(parts[j])])

\* C24: once the body of an else has been processed no further Block is
\* emitted: for a fragment made of an if, else ifs, an else with its body in
\* braces, and then any text (a second else or an else if included), the
\* Blocks are those of the chain up to and including the else body; for an
\* else body without braces the Blocks of the chain up to the else come
\* first and no Decision Block follows them.
C24_ElseTerminatesChain ==
    pc = "processed" =>
        \A k \in 1..Len(request.parts) :
            ChainEndsInElse(request.parts, k) =>
                /\ ~response.raised
                /\ request.parts[k] = ElseBraced =>
                      response.value = ChainBlocks(request.parts, k)
                /\ request.parts[k] = ElsePlain =>
                      /\ Len(response.value) >= Len(ChainBlocks(request.parts, k - 1))
                      /\ SubSeq(response.value, 1,
                                Len(ChainBlocks(request.parts, k - 1)))
                            = ChainBlocks(request.parts, k - 1)
                      /\ \A i \in DOMAIN response.value :
                            i > Len(ChainBlocks(request.parts, k - 1)) =>
                                response.value[i].type = "statement"

\* the text after the condition of a fragment 'if (..) ..'; <<>> when the
\* fragment is no if
Remainder(fragment) ==
    LET if_match == MatchCondition(IfKeyword, strip(fragment))
    IN IF if_match.matched THEN strip(if_match.group2) ELSE <<>>

\* the source holds an 'if (cond) { body }' outside of comments
HasBracedIf(code) ==
    LET text == NormalizeWhitespace(RemoveComments(code))
    IN \E i \in 0..(Len(text) - 1) :
          /\ startswith(Remainder(From(text, i)), <<"{">>)
          /\ ~find_matching_brace(Remainder(From(text, i))).raised

\* C26: when generate_cfg processes a source that holds 'if (cond) { body }',
\* process_code_fragment is handed a fragment whose text after the condition
\* starts with '{', and it hands the text between that brace and its
\* matching brace to parse_c_code as the true branch.
C26_BracedBodyReachesProcessor ==
    (pc = "done" /\ HasBracedIf(c_code)) =>
        \E call \in Reach(Call("parse_c_code", c_code, 0)) :
            /\ call.op = "process_code_fragment"
            /\ startswith(Remainder(call.text), <<"{">>)
            /\ LET end_idx == find_matching_brace(Remainder(call.text))
               IN /\ ~end_idx.raised
                  /\ Call("parse_c_code",
                          strip(SubSeq(Remainder(call.text), 2, end_idx.value)),
                          call.depth + 1) \in Callees(call)

\* parts[1..k] is an if, then else ifs, the last of them with its body in
\* braces, and parts[k + 1] starts with neither 'else if' nor 'else'
BracedChainThenText(parts, k) ==
    /\ k >= 1
    /\ k < Len(parts)
    /\ parts[1] \in {IfBraced, IfPlain}
    /\ \A j \in 2..k : parts[j] \in {ElseIfBraced, ElseIfPlain}
    /\ parts[k] \in {IfBraced, ElseIfBraced}
    /\ parts[k + 1] \in {Trailing, IfBraced, IfPlain, IfOpen}

\* C25: a fragment whose if / else-if body in braces is followed by text
\* that starts with neither 'else if' nor 'else' returns, without raising,
\* the Blocks of the chain processed so far: the trailing text adds no Block.
C25_TrailingTextIgnored ==
    pc = "processed" =>
        \A k \in 1..Len(request.parts) :
            BracedChainThenText(request.parts, k) =>
                /\ ~response.raised
                /\ response.value = ChainBlocks(request.parts, k)

\* if (a) {x} else if (b) {y} z
C25_Witness ==
    /\ pc = "processed"
    /\ request.parts = <<IfBraced, ElseIfBraced, Trailing>>
    /\ response = Return(<<DecisionBlock(<<"a">>), StatementBlock(<<"x">>),
                           DecisionBlock(<<"b">>), StatementBlock(<<"y">>)>>)

\* ---------------------------------------------------------------------
\* the parser call by call: a behaviour follows one path down the calls of
\* parse_c_code and process_code_fragment and the iterations of 'while rest'
\* ---------------------------------------------------------------------

\* generate_cfg's call of parse_c_code on a posted source, or a call of
\* process_code_fragment on a fragment of its own
RootCalls ==
    {Call("parse_c_code", src, 0) : src \in Sources}
      \cup {Call("process_code_fragment", Flatten(parts), 0) :
               parts \in FragmentParts}

InitParse ==
    /\ pc = "parsing"
    /\ request \in RootCalls
    /\ c_code = IF request.op = "parse_c_code" THEN request.text ELSE <<>>
    /\ response = NoResponse
    /\ parsed_blocks = <<>>
    /\ node_id = 0
    /\ cfg = NoCfg
    /\ log = <<>>
    /\ session_data = <<>>
    /\ evaluated = <<>>
    /\ project_data = <<>>
    /\ compiled = {}

\* blocks.extend(process_code_fragment(buffer.strip()))
CallProcessCodeFragment ==
    /\ pc = "parsing"
    /\ request.op = "parse_c_code"
    /\ \E c \in Callees(request) : request' = c
    /\ UNCHANGED <<pc, response, cfgVars, fitnessVars, coverageVars>>

\* blocks.extend(parse_c_code(..)) on the body of a branch
CallParseCCode ==
    /\ pc = "parsing"
    /\ request.op # "parse_c_code"
    /\ \E c \in Callees(request) : c.op = "parse_c_code" /\ request' = c
    /\ UNCHANGED <<pc, response, cfgVars, fitnessVars, coverageVars>>

\* while rest: the loop goes round with the text left after a branch
IterateWhileRest ==
    /\ pc = "parsing"
    /\ request.op # "parse_c_code"
    /\ \E c \in Callees(request) : c.op = "while rest" /\ request' = c
    /\ UNCHANGED <<pc, response, cfgVars, fitnessVars, coverageVars>>

NextParse ==
    \/ CallProcessCodeFragment
    \/ CallParseCCode
    \/ IterateWhileRest

SpecParse == InitParse /\ [][NextParse]_vars

\* what is left to work on: the length of the text, and for parse_c_code two
\* more, since a fragment is a token of the text with ' ;' for its ';'
Measure(call) ==
    IF call.op = "parse_c_code" THEN Len(call.text) + 2 ELSE Len(call.text)

\* C27: generate_cfg terminates on every source: every call that
\* parse_c_code and process_code_fragment make of each other, and every
\* iteration of the loop 'while rest', works on strictly less text than the
\* call or iteration it comes from, by a measure that is a natural number.
C27_Terminates ==
    [][Measure(request') < Measure(request)]_vars

\* a body three calls down, reached after an iteration of the loop
C27_Witness ==
    /\ pc = "parsing"
    /\ c_code = ScenarioInline
    /\ request = Call("parse_c_code", <<"z">>, 2)

\* ---------------------------------------------------------------------
\* several generate_cfg requests whose steps interleave: pc, c_code and
\* response hold one value per request, and parsed_blocks, node_id and cfg
\* one value per call frame
\* ---------------------------------------------------------------------

MaxRequests == 2

Requests == 1..MaxRequests

InterleavedSources == ScenarioSources

\* every request works in the one and same frame
FrameShared(r) == 1

\* blocks, node_id, nodes and edges are locals: each call has a frame of its
\* own
Frame(r) == r

InitInterleaved ==
    /\ pc = [r \in Requests |-> "idle"]
    /\ c_code = [r \in Requests |-> <<>>]
    /\ response = [r \in Requests |-> NoResponse]
    /\ parsed_blocks = [r \in Requests |-> <<>>]
    /\ node_id = [r \in Requests |-> 0]
    /\ cfg = [r \in Requests |-> NoCfg]
    /\ log = <<>>
    /\ OtherServicesIdle

\* a client posts code_input
PostRequest(r, src) ==
    /\ pc[r] = "idle"
    /\ pc' = [pc EXCEPT ![r] = "received"]
    /\ c_code' = [c_code EXCEPT ![r] = src]
    /\ UNCHANGED <<parsed_blocks, node_id, cfg, response, log, request,
                   fitnessVars, coverageVars>>

\* blocks = parse_c_code(code_input.c_code), or the HTTPException
ParseSource(r) ==
    /\ pc[r] = "received"
    /\ \E parsed \in {parse_c_code(c_code[r], 0)} :
          IF parsed.raised
          THEN /\ response' = [response EXCEPT
                                  ![r] = HTTPException(400, parsed.error)]
               /\ pc' = [pc EXCEPT ![r] = "done"]
               /\ UNCHANGED parsed_blocks
          ELSE /\ parsed_blocks' = [parsed_blocks EXCEPT
                                       ![Frame(r)] = parsed.value]
               /\ pc' = [pc EXCEPT ![r] = "parsed"]
               /\ UNCHANGED response
    /\ UNCHANGED <<c_code, node_id, cfg, log, request, fitnessVars,
                   coverageVars>>

\* nodes = [], edges = [], node_id = 0
EnterGenerateCfg(r) ==
    /\ pc[r] = "parsed"
    /\ pc' = [pc EXCEPT ![r] = "nodes"]
    /\ cfg' = [cfg EXCEPT ![Frame(r)] = NoCfg]
    /\ node_id' = [node_id EXCEPT ![Frame(r)] = 0]
    /\ UNCHANGED <<c_code, parsed_blocks, response, log, request,
                   fitnessVars, coverageVars>>

\* one turn of 'for block in blocks'
CreateNode(r) ==
    /\ pc[r] = "nodes"
    /\ Len(cfg[Frame(r)].nodes) < Len(parsed_blocks[Frame(r)])
    /\ LET block == parsed_blocks[Frame(r)][Len(cfg[Frame(r)].nodes) + 1]
       IN cfg' = [cfg EXCEPT ![Frame(r)].nodes =
                     Append(@, BlockNode(block, node_id[Frame(r)]))]
    /\ node_id' = [node_id EXCEPT ![Frame(r)] = @ + 1]
    /\ UNCHANGED <<pc, c_code, parsed_blocks, response, log, request,
                   fitnessVars, coverageVars>>

\* the entry and exit nodes, after the loop
AddEntryAndExit(r) ==
    /\ pc[r] = "nodes"
    /\ Len(cfg[Frame(r)].nodes) >= Len(parsed_blocks[Frame(r)])
    /\ pc' = [pc EXCEPT ![r] = "edges"]
    /\ LET entry_node ==
               CFGNode(node_id[Frame(r)], <<>>, "entry", Some(START))
           exit_node ==
               CFGNode(node_id[Frame(r)] + 1, <<>>, "exit", Some(EXIT))
       IN cfg' = [cfg EXCEPT ![Frame(r)].nodes =
                     (<<entry_node>> \o @) \o <<exit_node>>]
    /\ node_id' = [node_id EXCEPT ![Frame(r)] = @ + 2]
    /\ UNCHANGED <<c_code, parsed_blocks, response, log, request,
                   fitnessVars, coverageVars>>

\* the loop 'for i in range(len(nodes) - 1)'
AddEdges(r) ==
    /\ pc[r] = "edges"
    /\ pc' = [pc EXCEPT ![r] = "built"]
    /\ cfg' = [cfg EXCEPT ![Frame(r)].edges =
                  BuildEdges(cfg[Frame(r)].nodes, 0)]
    /\ UNCHANGED <<c_code, parsed_blocks, node_id, response, log, request,
                   fitnessVars, coverageVars>>

\* return cfg
ReturnCfg(r) ==
    /\ pc[r] = "built"
    /\ pc' = [pc EXCEPT ![r] = "done"]
    /\ response' = [response EXCEPT ![r] = Ok(cfg[Frame(r)])]
    /\ UNCHANGED <<c_code, parsed_blocks, node_id, cfg, log, request,
                   fitnessVars, coverageVars>>

NextInterleaved ==
    \E r \in Requests :
        \/ \E src \in InterleavedSources : PostRequest(r, src)
        \/ ParseSource(r)
        \/ EnterGenerateCfg(r)
        \/ CreateNode(r)
        \/ AddEntryAndExit(r)
        \/ AddEdges(r)
        \/ ReturnCfg(r)

SpecInterleaved == InitInterleaved /\ [][NextInterleaved]_vars

\* what a request returns when it is the only one
AloneResponse(src) ==
    LET parsed == parse_c_code(src, 0)
    IN IF parsed.raised THEN HTTPException(400, parsed.error)
       ELSE LET built == generate_cfg_from_ir(parsed.value)
            IN Ok([nodes |-> built.nodes, edges |-> built.edges])

\* C28: when the steps of two or more generate_cfg requests interleave in
\* any order, each returns exactly the nodes and edges it returns when run
\* alone, and the ids of its nodes are 0..N+1 for its own number N of
\* blocks.
C28_InterleavedAsAlone ==
    \A r \in Requests :
        pc[r] = "done" =>
            /\ response[r] = AloneResponse(c_code[r])
            /\ response[r].status = 200 =>
                  {response[r].body.nodes[k].id :
                      k \in DOMAIN response[r].body.nodes}
                    = 0..(Len(parse_c_code(c_code[r], 0).value) + 1)

\* request 1 has returned its graph of five blocks while request 2 is in
\* the middle of its loop over two blocks, each with an id counter of its own
C28_Witness ==
    /\ pc[1] = "done"
    /\ c_code[1] = ScenarioInline
    /\ response[1].status = 200
    /\ Len(response[1].body.nodes) = 7
    /\ node_id[1] = 7
    /\ pc[2] = "nodes"
    /\ c_code[2] = ScenarioB
    /\ Len(cfg[2].nodes) = 1
    /\ node_id[2] = 1

\* C29: the Blocks parse_c_code returns for a source, at the top or for the
\* body of a branch, are Statement Blocks with exactly one line, which is
\* not empty, and Decision Blocks with a condition; no line and no condition
\* holds a '{' or a '}'; and every fragment handed to process_code_fragment
\* yields at least one Block.
C29_BlockShapes ==
    pc = "parsing" =>
        /\ request.op = "parse_c_code" =>
              LET result == parse_c_code(request.text, request.depth)
              IN ~result.raised =>
                    \A i \in DOMAIN result.value :
                       LET block == result.value[i]
                       IN \/ /\ block.type = "statement"
                             /\ DOMAIN block = {"type", "lines"}
                             /\ Len(block.lines) = 1
                             /\ block.lines[1] # <<>>
                             /\ \A k \in DOMAIN block.lines[1] :
                                   block.lines[1][k] \notin {"{", "}"}
                          \/ /\ block.type = "decision"
                             /\ DOMAIN block = {"type", "condition"}
                             /\ \A k \in DOMAIN block.condition :
                                   block.condition[k] \notin {"{", "}"}
        /\ request.op = "process_code_fragment" =>
              LET result == process_code_fragment(request.text, request.depth)
              IN ~result.raised => Len(result.value) >= 1

\* scenario C, whose bodies are in braces: the fragment of its if, handed
\* on without the brace that follows it
C29_Witness ==
    /\ pc = "parsing"
    /\ c_code = ScenarioC
    /\ request = Call("process_code_fragment",
                      <<"i", "f", " ", "(", "x", " ", ">", " ", "0", ")">>, 1)
    /\ process_code_fragment(request.text, request.depth) =
          Return(<<DecisionBlock(<<"x", " ", ">", " ", "0">>)>>)
    /\ parse_c_code(c_code, 0) =
          Return(<< DecisionBlock(<<"x", " ", ">", " ", "0">>),
                    StatementBlock(<<"y", " ", "=", " ", "1", " ", ";">>),
                    StatementBlock(<<"e", "l", "s", "e">>),
                    StatementBlock(<<"y", " ", "=", " ", "-", "1", " ", ";">>) >>)

\* C30: for every evaluated session, also one whose test cases share a
\* test_id, the test case that best returns at position i is the one that
\* earned the fitness score returned at position i: it has as many
\* executed_branches as that score has branches_covered.
C30_BestCaseEarnedScore ==
    (pc = "fitness" /\ request.op = "best" /\ response.status = 200) =>
        /\ Len(response.body.best_test_cases)
              = Len(response.body.fitness_scores)
        /\ \A i \in DOMAIN response.body.best_test_cases :
              Len(response.body.best_test_cases[i].executed_branches)
                 = response.body.fitness_scores[i].branches_covered


====
